---- MODULE Spec2Model ----
(***************************************************************************)
(* Model of the pomelo webhook core: the domain (Money, Transaction,       *)
(* Adjustment), the in-memory Repository (the ledger) and the application  *)
(* Service that processes PURCHASE / REVERSAL_PURCHASE / REFUND events.    *)
(*                                                                         *)
(* Each request is a worker.  A worker advances one ledger call at a time: *)
(* every Repository method takes the RWMutex for its whole body, so a      *)
(* method call is one atomic step, and everything the Service computes     *)
(* between two calls (building Money, NewPurchase, NewAdjustment,          *)
(* sumExistingAdjustments, ValidateAgainstPurchase) touches only locals    *)
(* and is folded into the step of the call that precedes it.               *)
(*                                                                         *)
(* Passthrough fields (merchant, user, card, country, point of sale, the   *)
(* event timestamp) are never read by any check and are left out.          *)
(*                                                                         *)
(* Readers are the requests that only query the ledger (GetTransaction,    *)
(* ListTransactions) and the direct callers of the Repository getters; a   *)
(* query is one atomic step under the read lock.  The domain functions are *)
(* also called directly, outside any request: `unit` holds such a call.    *)
(*                                                                         *)
(* The two save methods are also modelled statement by statement, with the *)
(* write lock taken and released in steps of their own (`mu`), to see what *)
(* is visible between the two map writes of a save; so are the getters,    *)
(* with the read lock, to see that every request returns.                  *)
(***************************************************************************)
EXTENDS Integers, Sequences, FiniteSets, TLC

VARIABLES
    repo,       \* Repository: transactions, adjustments, idempotencyKeys
    pc,         \* per worker: where the request stands
    cmd,        \* per worker: the ProcessTransactionCommand being processed
    original,   \* per worker: local `original` of processAdjustment
    obj,        \* per worker: local `tx` / `adj` built by the constructors
    result,     \* per worker: the returned ProcessTransactionResult
    err,        \* per worker: the returned error
    reads,      \* per reader: its last query and what the query returned
    unit,       \* the last direct call of a domain function and its return
    mu          \* Repository.mu: the writer inside Lock() .. Unlock() or "",
                \* the holders of the read lock, the readers blocked in RLock()

vars == <<repo, pc, cmd, original, obj, result, err, reads, unit, mu>>

----------------------------------------------------------------------------
(* Program constants                                                       *)

MinPurchaseAmount == 100
MaxPurchaseAmount == 500000

TypePurchase == "PURCHASE"
TypeReversalPurchase == "REVERSAL_PURCHASE"
TypeRefund == "REFUND"

StatusApproved == "APPROVED"
StatusRejected == "REJECTED"

Nil == "nil"
ErrTransactionNotFound == "ErrTransactionNotFound"
ErrPurchaseNotApproved == "ErrPurchaseNotApproved"
ErrExceedsOriginalAmount == "ErrExceedsOriginalAmount"
ErrNegativeAmount == "ErrNegativeAmount"
ErrAmountOutOfRange == "ErrAmountOutOfRange"
ErrCurrencyMismatch == "ErrCurrencyMismatch"
ErrInvalidTransactionType == "ErrInvalidTransactionType"
ErrDuplicateIdempotencyKey == "ErrDuplicateIdempotencyKey"
ErrOriginalTransactionRequired == "ErrOriginalTransactionRequired"
ErrDuplicateTransactionID == "ErrDuplicateTransactionID"
ErrInvalidInput == "ErrInvalidInput"

----------------------------------------------------------------------------
(* Money.  Amount is an int64; the model keeps a two's complement integer  *)
(* of IntBits bits in its place, so that sums wrap around as they do in Go.*)

IntBits == 21
MaxInt64 == 2^(IntBits - 1) - 1
MinInt64 == -(2^(IntBits - 1))

\* The value an int64 expression takes: x reduced into MinInt64 .. MaxInt64.
Wrap(x) == ((x - MinInt64) % 2^IntBits) + MinInt64

ZeroMoney == [Amount |-> 0, Currency |-> ""]

NewMoney(amount, currency) ==
    IF amount < 0
    THEN [err |-> ErrNegativeAmount, val |-> ZeroMoney]
    ELSE [err |-> Nil, val |-> [Amount |-> amount, Currency |-> currency]]

Add(m, other) ==
    IF m.Currency # other.Currency
    THEN [err |-> ErrCurrencyMismatch, val |-> ZeroMoney]
    ELSE [err |-> Nil,
          val |-> [Amount |-> Wrap(m.Amount + other.Amount),
                   Currency |-> m.Currency]]

\* Mutant: >= instead of >.
GreaterThanStrictnessLost(m, other) ==
    IF m.Currency # other.Currency
    THEN [err |-> ErrCurrencyMismatch, val |-> FALSE]
    ELSE [err |-> Nil, val |-> m.Amount >= other.Amount]

\* Mutant: the amounts are compared whatever the currencies.
GreaterThanIgnoresCurrency(m, other) ==
    [err |-> Nil, val |-> m.Amount > other.Amount]

GreaterThan(m, other) ==
    IF m.Currency # other.Currency
    THEN [err |-> ErrCurrencyMismatch, val |-> FALSE]
    ELSE [err |-> Nil, val |-> m.Amount > other.Amount]

----------------------------------------------------------------------------
(* Transaction and Adjustment (the two structs have the same fields)       *)

ZeroAmount ==
    [Local |-> ZeroMoney, Transaction |-> ZeroMoney,
     Settlement |-> ZeroMoney, Original |-> ZeroMoney]

ZeroTransaction ==
    [ID |-> "", Type |-> "", Status |-> "", Amount |-> ZeroAmount,
     Event |-> [ID |-> "", IdempotencyKey |-> ""],
     OriginalTransactionID |-> ""]

\* Mutant: the lower limit itself is refused.
NewPurchaseMinExcluded(id, status, amount, event) ==
    IF id = ""
    THEN [err |-> ErrInvalidInput, val |-> ZeroTransaction]
    ELSE IF event.ID = "" \/ event.IdempotencyKey = ""
    THEN [err |-> ErrInvalidInput, val |-> ZeroTransaction]
    ELSE IF amount.Local.Amount <= MinPurchaseAmount
            \/ amount.Local.Amount > MaxPurchaseAmount
    THEN [err |-> ErrAmountOutOfRange, val |-> ZeroTransaction]
    ELSE [err |-> Nil,
          val |-> [ID |-> id, Type |-> TypePurchase, Status |-> status,
                   Amount |-> amount, Event |-> event,
                   OriginalTransactionID |-> ""]]

\* Mutant: the amount is checked before the ID and the event.
NewPurchaseRangeFirst(id, status, amount, event) ==
    IF amount.Local.Amount < MinPurchaseAmount
       \/ amount.Local.Amount > MaxPurchaseAmount
    THEN [err |-> ErrAmountOutOfRange, val |-> ZeroTransaction]
    ELSE IF id = ""
    THEN [err |-> ErrInvalidInput, val |-> ZeroTransaction]
    ELSE IF event.ID = "" \/ event.IdempotencyKey = ""
    THEN [err |-> ErrInvalidInput, val |-> ZeroTransaction]
    ELSE [err |-> Nil,
          val |-> [ID |-> id, Type |-> TypePurchase, Status |-> status,
                   Amount |-> amount, Event |-> event,
                   OriginalTransactionID |-> ""]]

\* Mutant: the event id and the idempotency key are not required.
NewPurchaseNoEventCheck(id, status, amount, event) ==
    IF id = ""
    THEN [err |-> ErrInvalidInput, val |-> ZeroTransaction]
    ELSE IF amount.Local.Amount < MinPurchaseAmount
            \/ amount.Local.Amount > MaxPurchaseAmount
    THEN [err |-> ErrAmountOutOfRange, val |-> ZeroTransaction]
    ELSE [err |-> Nil,
          val |-> [ID |-> id, Type |-> TypePurchase, Status |-> status,
                   Amount |-> amount, Event |-> event,
                   OriginalTransactionID |-> ""]]

NewPurchase(id, status, amount, event) ==
    IF id = ""
    THEN [err |-> ErrInvalidInput, val |-> ZeroTransaction]
    ELSE IF event.ID = "" \/ event.IdempotencyKey = ""
    THEN [err |-> ErrInvalidInput, val |-> ZeroTransaction]
    ELSE IF amount.Local.Amount < MinPurchaseAmount
            \/ amount.Local.Amount > MaxPurchaseAmount
    THEN [err |-> ErrAmountOutOfRange, val |-> ZeroTransaction]
    ELSE [err |-> Nil,
          val |-> [ID |-> id, Type |-> TypePurchase, Status |-> status,
                   Amount |-> amount, Event |-> event,
                   OriginalTransactionID |-> ""]]

IsApprovedPurchase(t) == t.Type = TypePurchase /\ t.Status = StatusApproved

\* Mutant: the status of the purchase is not looked at.
CanReceiveAdjustmentAlways(t) == t.Type = TypePurchase

CanReceiveAdjustment(t) == IsApprovedPurchase(t)

\* Mutant: the reference is checked before the type.
NewAdjustmentReferenceFirst(id, txType, status, amount, event, originalTransactionID) ==
    IF originalTransactionID = ""
    THEN [err |-> ErrOriginalTransactionRequired, val |-> ZeroTransaction]
    ELSE IF txType # TypeReversalPurchase /\ txType # TypeRefund
    THEN [err |-> ErrInvalidTransactionType, val |-> ZeroTransaction]
    ELSE IF id = ""
    THEN [err |-> ErrInvalidInput, val |-> ZeroTransaction]
    ELSE IF event.ID = "" \/ event.IdempotencyKey = ""
    THEN [err |-> ErrInvalidInput, val |-> ZeroTransaction]
    ELSE [err |-> Nil,
          val |-> [ID |-> id, Type |-> txType, Status |-> status,
                   Amount |-> amount, Event |-> event,
                   OriginalTransactionID |-> originalTransactionID]]

NewAdjustment(id, txType, status, amount, event, originalTransactionID) ==
    IF txType # TypeReversalPurchase /\ txType # TypeRefund
    THEN [err |-> ErrInvalidTransactionType, val |-> ZeroTransaction]
    ELSE IF originalTransactionID = ""
    THEN [err |-> ErrOriginalTransactionRequired, val |-> ZeroTransaction]
    ELSE IF id = ""
    THEN [err |-> ErrInvalidInput, val |-> ZeroTransaction]
    ELSE IF event.ID = "" \/ event.IdempotencyKey = ""
    THEN [err |-> ErrInvalidInput, val |-> ZeroTransaction]
    ELSE [err |-> Nil,
          val |-> [ID |-> id, Type |-> txType, Status |-> status,
                   Amount |-> amount, Event |-> event,
                   OriginalTransactionID |-> originalTransactionID]]

ValidateAgainstPurchase(a, orig, existingTotal) ==
    IF ~CanReceiveAdjustment(orig) THEN ErrPurchaseNotApproved
    ELSE IF a.Status # StatusApproved THEN Nil
    ELSE LET newTotal == Add(existingTotal, a.Amount.Local)
         IN  IF newTotal.err # Nil THEN newTotal.err
             ELSE LET exceeds == GreaterThan(newTotal.val, orig.Amount.Local)
                  IN  IF exceeds.err # Nil THEN exceeds.err
                      ELSE IF exceeds.val THEN ErrExceedsOriginalAmount
                      ELSE Nil

RECURSIVE sumLoop(_, _)
sumLoop(adjs, total) ==
    IF adjs = <<>> THEN [err |-> Nil, val |-> total]
    ELSE IF Head(adjs).Status # StatusApproved THEN sumLoop(Tail(adjs), total)
    ELSE LET r == Add(total, Head(adjs).Amount.Local)
         IN  IF r.err # Nil THEN [err |-> r.err, val |-> ZeroMoney]
             ELSE sumLoop(Tail(adjs), r.val)

\* Mutant: the sum counts every adjustment, whatever its status.
RECURSIVE sumAllLoop(_, _)
sumAllLoop(adjs, total) ==
    IF adjs = <<>> THEN [err |-> Nil, val |-> total]
    ELSE LET r == Add(total, Head(adjs).Amount.Local)
         IN  IF r.err # Nil THEN [err |-> r.err, val |-> ZeroMoney]
             ELSE sumAllLoop(Tail(adjs), r.val)

sumExistingAdjustmentsCountsRejected(adjs, currency) ==
    LET total == NewMoney(0, currency)
    IN  IF total.err # Nil THEN [err |-> total.err, val |-> ZeroMoney]
        ELSE sumAllLoop(adjs, total.val)

sumExistingAdjustments(adjs, currency) ==
    LET total == NewMoney(0, currency)
    IN  IF total.err # Nil THEN [err |-> total.err, val |-> ZeroMoney]
        ELSE sumLoop(adjs, total.val)

----------------------------------------------------------------------------
(* Repository: three Go maps behind one RWMutex.  A map is a function on   *)
(* the set of its keys; m[k] = v overwrites.                               *)

Put(m, k, v) == [x \in (DOMAIN m) \cup {k} |-> IF x = k THEN v ELSE m[x]]

EmptyMap == [x \in {} |-> x]

NewRepository ==
    [transactions |-> EmptyMap, adjustments |-> EmptyMap,
     idempotencyKeys |-> EmptyMap]

\* Mutant: no check of the transaction ID, the stored purchase is overwritten.
SaveTransactionNoIDCheck(r, tx) ==
    IF tx.Event.IdempotencyKey \in DOMAIN r.idempotencyKeys
    THEN [err |-> ErrDuplicateIdempotencyKey, repo |-> r]
    ELSE [err |-> Nil,
          repo |-> [r EXCEPT
              !.idempotencyKeys = Put(@, tx.Event.IdempotencyKey, tx.ID),
              !.transactions = Put(@, tx.ID, tx)]]

\* Mutant: the key is recorded before the transaction ID is checked.
SaveTransactionKeyBeforeIDCheck(r, tx) ==
    IF tx.Event.IdempotencyKey \in DOMAIN r.idempotencyKeys
    THEN [err |-> ErrDuplicateIdempotencyKey, repo |-> r]
    ELSE IF tx.ID \in DOMAIN r.transactions
    THEN [err |-> ErrDuplicateTransactionID,
          repo |-> [r EXCEPT
              !.idempotencyKeys = Put(@, tx.Event.IdempotencyKey, tx.ID)]]
    ELSE [err |-> Nil,
          repo |-> [r EXCEPT
              !.idempotencyKeys = Put(@, tx.Event.IdempotencyKey, tx.ID),
              !.transactions = Put(@, tx.ID, tx)]]

\* Mutant: the write replaces the map of purchases instead of adding to it.
SaveTransactionReplacesMap(r, tx) ==
    IF tx.Event.IdempotencyKey \in DOMAIN r.idempotencyKeys
    THEN [err |-> ErrDuplicateIdempotencyKey, repo |-> r]
    ELSE IF tx.ID \in DOMAIN r.transactions
    THEN [err |-> ErrDuplicateTransactionID, repo |-> r]
    ELSE [err |-> Nil,
          repo |-> [r EXCEPT
              !.idempotencyKeys = Put(@, tx.Event.IdempotencyKey, tx.ID),
              !.transactions = Put(EmptyMap, tx.ID, tx)]]

\* Mutant: the transaction ID is checked before the idempotency key.
SaveTransactionIDCheckFirst(r, tx) ==
    IF tx.ID \in DOMAIN r.transactions
    THEN [err |-> ErrDuplicateTransactionID, repo |-> r]
    ELSE IF tx.Event.IdempotencyKey \in DOMAIN r.idempotencyKeys
    THEN [err |-> ErrDuplicateIdempotencyKey, repo |-> r]
    ELSE [err |-> Nil,
          repo |-> [r EXCEPT
              !.idempotencyKeys = Put(@, tx.Event.IdempotencyKey, tx.ID),
              !.transactions = Put(@, tx.ID, tx)]]

SaveTransaction(r, tx) ==
    IF tx.Event.IdempotencyKey \in DOMAIN r.idempotencyKeys
    THEN [err |-> ErrDuplicateIdempotencyKey, repo |-> r]
    ELSE IF tx.ID \in DOMAIN r.transactions
    THEN [err |-> ErrDuplicateTransactionID, repo |-> r]
    ELSE [err |-> Nil,
          repo |-> [r EXCEPT
              !.idempotencyKeys = Put(@, tx.Event.IdempotencyKey, tx.ID),
              !.transactions = Put(@, tx.ID, tx)]]

\* r.adjustments[id]; the zero value of a missing key is the nil slice.
Adjustments(r, id) == IF id \in DOMAIN r.adjustments THEN r.adjustments[id] ELSE <<>>

\* slices.Clone: the same elements in a backing array of its own.  A slice
\* handed to a caller is its elements and whether its backing array is the
\* one the ledger's slice uses.
Clone(s) == [elems |-> s, shared |-> FALSE]

\* Mutant: the ledger's own slice is handed out.
GetAdjustmentsByTransactionIDNoCopy(r, originalTxID) ==
    [elems |-> Adjustments(r, originalTxID), shared |-> TRUE]

GetAdjustmentsByTransactionID(r, originalTxID) ==
    Clone(Adjustments(r, originalTxID))

\* Mutant: no check of the idempotency key under the write lock.
SaveAdjustmentNoKeyCheck(r, adj) ==
    [err |-> Nil,
     repo |-> [r EXCEPT
         !.idempotencyKeys = Put(@, adj.Event.IdempotencyKey, adj.ID),
         !.adjustments = Put(@, adj.OriginalTransactionID,
             Append(Adjustments(r, adj.OriginalTransactionID), adj))]]

\* Mutant: the adjustment is put in front of the list.
SaveAdjustmentPrepends(r, adj) ==
    IF adj.Event.IdempotencyKey \in DOMAIN r.idempotencyKeys
    THEN [err |-> ErrDuplicateIdempotencyKey, repo |-> r]
    ELSE [err |-> Nil,
          repo |-> [r EXCEPT
              !.idempotencyKeys = Put(@, adj.Event.IdempotencyKey, adj.ID),
              !.adjustments = Put(@, adj.OriginalTransactionID,
                  <<adj>> \o Adjustments(r, adj.OriginalTransactionID))]]

\* Mutant: the key is recorded for the purchase's ID, not the adjustment's.
SaveAdjustmentKeyToOriginal(r, adj) ==
    IF adj.Event.IdempotencyKey \in DOMAIN r.idempotencyKeys
    THEN [err |-> ErrDuplicateIdempotencyKey, repo |-> r]
    ELSE [err |-> Nil,
          repo |-> [r EXCEPT
              !.idempotencyKeys = Put(@, adj.Event.IdempotencyKey,
                                      adj.OriginalTransactionID),
              !.adjustments = Put(@, adj.OriginalTransactionID,
                  Append(Adjustments(r, adj.OriginalTransactionID), adj))]]

\* Mutant: the adjustment is filed under its own ID.
SaveAdjustmentUnderOwnID(r, adj) ==
    IF adj.Event.IdempotencyKey \in DOMAIN r.idempotencyKeys
    THEN [err |-> ErrDuplicateIdempotencyKey, repo |-> r]
    ELSE [err |-> Nil,
          repo |-> [r EXCEPT
              !.idempotencyKeys = Put(@, adj.Event.IdempotencyKey, adj.ID),
              !.adjustments = Put(@, adj.ID,
                  Append(Adjustments(r, adj.ID), adj))]]

SaveAdjustment(r, adj) ==
    IF adj.Event.IdempotencyKey \in DOMAIN r.idempotencyKeys
    THEN [err |-> ErrDuplicateIdempotencyKey, repo |-> r]
    ELSE [err |-> Nil,
          repo |-> [r EXCEPT
              !.idempotencyKeys = Put(@, adj.Event.IdempotencyKey, adj.ID),
              !.adjustments = Put(@, adj.OriginalTransactionID,
                  Append(Adjustments(r, adj.OriginalTransactionID), adj))]]

\* Mutant: an absent transaction is returned as the zero value, no error.
GetTransactionByIDZeroValue(r, id) ==
    IF id \in DOMAIN r.transactions
    THEN [err |-> Nil, val |-> r.transactions[id]]
    ELSE [err |-> Nil, val |-> ZeroTransaction]

\* Mutant: a purchase that is not approved is reported as absent.
GetTransactionByIDApprovedOnly(r, id) ==
    IF id \in DOMAIN r.transactions /\ IsApprovedPurchase(r.transactions[id])
    THEN [err |-> Nil, val |-> r.transactions[id]]
    ELSE [err |-> ErrTransactionNotFound, val |-> ZeroTransaction]

GetTransactionByID(r, id) ==
    IF id \in DOMAIN r.transactions
    THEN [err |-> Nil, val |-> r.transactions[id]]
    ELSE [err |-> ErrTransactionNotFound, val |-> ZeroTransaction]

GetByIdempotencyKey(r, key) ==
    IF key \in DOMAIN r.idempotencyKeys
    THEN [id |-> r.idempotencyKeys[key], ok |-> TRUE]
    ELSE [id |-> "", ok |-> FALSE]

\* maps.Values in unspecified order: the bag of the stored purchases.
ListTransactions(r) ==
    [t \in {r.transactions[i] : i \in DOMAIN r.transactions} |->
        Cardinality({i \in DOMAIN r.transactions : r.transactions[i] = t})]

----------------------------------------------------------------------------
(* Service: ProcessTransaction, processPurchase, processAdjustment         *)

Workers == {"w1", "w2"}
Readers == {"r1", "r2"}

\* A reader that has not asked anything yet; no domain function called yet.
NoRead == [op |-> "", arg |-> "", ret |-> ""]
NoCall == [fn |-> "", args |-> <<>>, ret |-> ""]

EmptyResult == [TransactionID |-> "", Idempotent |-> FALSE]

\* Mutant: only the local amount goes through NewMoney.
BuildAmountLocalOnly(c) ==
    LET localMoney == NewMoney(c.LocalAmount, c.LocalCurrency)
    IN  IF localMoney.err # Nil THEN [err |-> localMoney.err, val |-> ZeroAmount]
        ELSE [err |-> Nil,
              val |-> [Local |-> localMoney.val,
                       Transaction |-> [Amount |-> c.TxAmount,
                                        Currency |-> c.TxCurrency],
                       Settlement |-> [Amount |-> c.SettlementAmount,
                                       Currency |-> c.SettlementCurrency],
                       Original |-> [Amount |-> c.OriginalAmount,
                                     Currency |-> c.OriginalCurrency]]]

\* The four NewMoney calls, in the order the Service makes them.
BuildAmount(c) ==
    LET localMoney == NewMoney(c.LocalAmount, c.LocalCurrency)
        txMoney == NewMoney(c.TxAmount, c.TxCurrency)
        settlementMoney == NewMoney(c.SettlementAmount, c.SettlementCurrency)
        originalMoney == NewMoney(c.OriginalAmount, c.OriginalCurrency)
    IN  IF localMoney.err # Nil THEN [err |-> localMoney.err, val |-> ZeroAmount]
        ELSE IF txMoney.err # Nil THEN [err |-> txMoney.err, val |-> ZeroAmount]
        ELSE IF settlementMoney.err # Nil
        THEN [err |-> settlementMoney.err, val |-> ZeroAmount]
        ELSE IF originalMoney.err # Nil
        THEN [err |-> originalMoney.err, val |-> ZeroAmount]
        ELSE [err |-> Nil,
              val |-> [Local |-> localMoney.val, Transaction |-> txMoney.val,
                       Settlement |-> settlementMoney.val,
                       Original |-> originalMoney.val]]

BuildEvent(c) == [ID |-> c.EventID, IdempotencyKey |-> c.IdempotencyKey]

BuildPurchase(c) ==
    LET amount == BuildAmount(c)
    IN  IF amount.err # Nil THEN [err |-> amount.err, val |-> ZeroTransaction]
        ELSE NewPurchase(c.TransactionID, c.TransactionStatus, amount.val,
                         BuildEvent(c))

BuildAdjustment(c) ==
    LET amount == BuildAmount(c)
    IN  IF amount.err # Nil THEN [err |-> amount.err, val |-> ZeroTransaction]
        ELSE NewAdjustment(c.TransactionID, c.TransactionType,
                           c.TransactionStatus, amount.val, BuildEvent(c),
                           c.OriginalTransactionID)

Idle(w) == pc[w] \in {"idle", "done"}

\* The request returns (res, e); its locals go out of scope.
Return(w, c, res, e) ==
    /\ pc' = [pc EXCEPT ![w] = "done"]
    /\ cmd' = [cmd EXCEPT ![w] = c]
    /\ original' = [original EXCEPT ![w] = ZeroTransaction]
    /\ obj' = [obj EXCEPT ![w] = ZeroTransaction]
    /\ result' = [result EXCEPT ![w] = res]
    /\ err' = [err EXCEPT ![w] = e]
    /\ UNCHANGED <<reads, unit, mu>>

\* The request goes on to its next ledger call.
Goto(w, c, label, orig, o) ==
    /\ pc' = [pc EXCEPT ![w] = label]
    /\ cmd' = [cmd EXCEPT ![w] = c]
    /\ original' = [original EXCEPT ![w] = orig]
    /\ obj' = [obj EXCEPT ![w] = o]
    /\ result' = [result EXCEPT ![w] = EmptyResult]
    /\ err' = [err EXCEPT ![w] = Nil]
    /\ UNCHANGED <<reads, unit, mu>>

\* Mutant: the replay answer without its idempotent flag.
ReplayNotFlagged(c) == [TransactionID |-> c.TransactionID, Idempotent |-> FALSE]

Replay(c) == [TransactionID |-> c.TransactionID, Idempotent |-> TRUE]

\* Mutant: the idempotency key is looked up before the type is examined.
RejectUnknownTypeLookupFirst(w, c) ==
    /\ Idle(w)
    /\ c.TransactionType \notin {TypePurchase, TypeReversalPurchase, TypeRefund}
    /\ IF GetByIdempotencyKey(repo, c.IdempotencyKey).ok
       THEN Return(w, c, Replay(c), ErrDuplicateIdempotencyKey)
       ELSE Return(w, c, EmptyResult, ErrInvalidTransactionType)
    /\ UNCHANGED repo

\* ProcessTransaction, default branch of the switch.
RejectUnknownType(w, c) ==
    /\ Idle(w)
    /\ c.TransactionType \notin {TypePurchase, TypeReversalPurchase, TypeRefund}
    /\ Return(w, c, EmptyResult, ErrInvalidTransactionType)
    /\ UNCHANGED repo

\* processPurchase up to the call of SaveTransaction: the advisory
\* GetByIdempotencyKey, then the constructors.
BeginPurchase(w, c) ==
    /\ Idle(w)
    /\ c.TransactionType = TypePurchase
    /\ LET tx == BuildPurchase(c)
       IN  IF GetByIdempotencyKey(repo, c.IdempotencyKey).ok
           THEN Return(w, c, Replay(c), ErrDuplicateIdempotencyKey)
           ELSE IF tx.err # Nil
           THEN Return(w, c, EmptyResult, tx.err)
           ELSE Goto(w, c, "SaveTransaction", ZeroTransaction, tx.val)
    /\ UNCHANGED repo

\* Mutant: every error of SaveTransaction is answered as a replay.
CommitPurchaseAnyErrorReplay(w) ==
    /\ pc[w] = "SaveTransaction"
    /\ LET saved == SaveTransaction(repo, obj[w])
       IN  /\ repo' = saved.repo
           /\ IF saved.err # Nil
              THEN Return(w, cmd[w], Replay(cmd[w]), saved.err)
              ELSE Return(w, cmd[w],
                          [TransactionID |-> obj[w].ID, Idempotent |-> FALSE],
                          Nil)

\* processPurchase, step 4: SaveTransaction and the return.
CommitPurchase(w) ==
    /\ pc[w] = "SaveTransaction"
    /\ LET saved == SaveTransaction(repo, obj[w])
       IN  /\ repo' = saved.repo
           /\ IF saved.err = ErrDuplicateIdempotencyKey
              THEN Return(w, cmd[w], Replay(cmd[w]), saved.err)
              ELSE IF saved.err # Nil
              THEN Return(w, cmd[w], EmptyResult, saved.err)
              ELSE Return(w, cmd[w],
                          [TransactionID |-> obj[w].ID, Idempotent |-> FALSE],
                          Nil)

\* Mutant: the advisory lookup comes before the empty-reference check.
BeginAdjustmentLookupFirst(w, c) ==
    /\ Idle(w)
    /\ c.TransactionType \in {TypeReversalPurchase, TypeRefund}
    /\ IF GetByIdempotencyKey(repo, c.IdempotencyKey).ok
       THEN Return(w, c, Replay(c), ErrDuplicateIdempotencyKey)
       ELSE IF c.OriginalTransactionID = ""
       THEN Return(w, c, EmptyResult, ErrOriginalTransactionRequired)
       ELSE Goto(w, c, "GetTransactionByID", ZeroTransaction, ZeroTransaction)
    /\ UNCHANGED repo

\* processAdjustment, steps 1 and 2: the empty-reference check, then the
\* advisory GetByIdempotencyKey.
BeginAdjustment(w, c) ==
    /\ Idle(w)
    /\ c.TransactionType \in {TypeReversalPurchase, TypeRefund}
    /\ IF c.OriginalTransactionID = ""
       THEN Return(w, c, EmptyResult, ErrOriginalTransactionRequired)
       ELSE IF GetByIdempotencyKey(repo, c.IdempotencyKey).ok
       THEN Return(w, c, Replay(c), ErrDuplicateIdempotencyKey)
       ELSE Goto(w, c, "GetTransactionByID", ZeroTransaction, ZeroTransaction)
    /\ UNCHANGED repo

\* processAdjustment, steps 3 and 4: GetTransactionByID, then the
\* constructors.
FetchOriginal(w) ==
    /\ pc[w] = "GetTransactionByID"
    /\ LET got == GetTransactionByID(repo, cmd[w].OriginalTransactionID)
           adj == BuildAdjustment(cmd[w])
       IN  IF got.err # Nil
           THEN Return(w, cmd[w], EmptyResult, got.err)
           ELSE IF adj.err # Nil
           THEN Return(w, cmd[w], EmptyResult, adj.err)
           ELSE Goto(w, cmd[w], "GetAdjustmentsByTransactionID", got.val,
                     adj.val)
    /\ UNCHANGED repo

\* processAdjustment, steps 5 and 6: GetAdjustmentsByTransactionID, the sum
\* of the approved ones and ValidateAgainstPurchase.
CheckBudget(w) ==
    /\ pc[w] = "GetAdjustmentsByTransactionID"
    /\ LET existingAdjs ==
               GetAdjustmentsByTransactionID(repo, cmd[w].OriginalTransactionID)
           existingTotal ==
               sumExistingAdjustments(existingAdjs.elems, cmd[w].LocalCurrency)
       IN  IF existingTotal.err # Nil
           THEN Return(w, cmd[w], EmptyResult, existingTotal.err)
           ELSE LET e == ValidateAgainstPurchase(obj[w], original[w],
                                                 existingTotal.val)
                IN  IF e # Nil
                    THEN Return(w, cmd[w], EmptyResult, e)
                    ELSE Goto(w, cmd[w], "SaveAdjustment", original[w],
                              obj[w])
    /\ UNCHANGED repo

\* processAdjustment, step 7: SaveAdjustment and the return.
CommitAdjustment(w) ==
    /\ pc[w] = "SaveAdjustment"
    /\ LET saved == SaveAdjustment(repo, obj[w])
       IN  /\ repo' = saved.repo
           /\ IF saved.err = ErrDuplicateIdempotencyKey
              THEN Return(w, cmd[w], Replay(cmd[w]), saved.err)
              ELSE IF saved.err # Nil
              THEN Return(w, cmd[w], EmptyResult, saved.err)
              ELSE Return(w, cmd[w],
                          [TransactionID |-> obj[w].ID, Idempotent |-> FALSE],
                          Nil)

----------------------------------------------------------------------------
(* The Service with the advisory GetByIdempotencyKey of processPurchase    *)
(* and of processAdjustment taken out: one request processed from start to *)
(* end on ledger r, every other statement as it stands.                    *)

Outcome(r, res, e) == [repo |-> r, result |-> res, err |-> e]

\* What the Service returns after a save returned `saved` for record o.
AfterSave(saved, c, o) ==
    IF saved.err = ErrDuplicateIdempotencyKey
    THEN Outcome(saved.repo, Replay(c), saved.err)
    ELSE IF saved.err # Nil
    THEN Outcome(saved.repo, EmptyResult, saved.err)
    ELSE Outcome(saved.repo, [TransactionID |-> o.ID, Idempotent |-> FALSE],
                 Nil)

processPurchaseNoLookup(r, c) ==
    LET tx == BuildPurchase(c)
    IN  IF tx.err # Nil THEN Outcome(r, EmptyResult, tx.err)
        ELSE AfterSave(SaveTransaction(r, tx.val), c, tx.val)

processAdjustmentNoLookup(r, c) ==
    LET got == GetTransactionByID(r, c.OriginalTransactionID)
        adj == BuildAdjustment(c)
        existingAdjs == GetAdjustmentsByTransactionID(r, c.OriginalTransactionID)
        existingTotal == sumExistingAdjustments(existingAdjs.elems,
                                                c.LocalCurrency)
        e == ValidateAgainstPurchase(adj.val, got.val, existingTotal.val)
    IN  IF c.OriginalTransactionID = ""
        THEN Outcome(r, EmptyResult, ErrOriginalTransactionRequired)
        ELSE IF got.err # Nil THEN Outcome(r, EmptyResult, got.err)
        ELSE IF adj.err # Nil THEN Outcome(r, EmptyResult, adj.err)
        ELSE IF existingTotal.err # Nil
        THEN Outcome(r, EmptyResult, existingTotal.err)
        ELSE IF e # Nil THEN Outcome(r, EmptyResult, e)
        ELSE AfterSave(SaveAdjustment(r, adj.val), c, adj.val)

ProcessTransactionNoLookup(r, c) ==
    IF c.TransactionType = TypePurchase THEN processPurchaseNoLookup(r, c)
    ELSE IF c.TransactionType \in {TypeReversalPurchase, TypeRefund}
    THEN processAdjustmentNoLookup(r, c)
    ELSE Outcome(r, EmptyResult, ErrInvalidTransactionType)

(* The Service as it stands, one request processed from start to end on    *)
(* ledger r with no other request in between.                              *)

processPurchase(r, c) ==
    IF GetByIdempotencyKey(r, c.IdempotencyKey).ok
    THEN Outcome(r, Replay(c), ErrDuplicateIdempotencyKey)
    ELSE processPurchaseNoLookup(r, c)

processAdjustment(r, c) ==
    IF c.OriginalTransactionID = ""
    THEN Outcome(r, EmptyResult, ErrOriginalTransactionRequired)
    ELSE IF GetByIdempotencyKey(r, c.IdempotencyKey).ok
    THEN Outcome(r, Replay(c), ErrDuplicateIdempotencyKey)
    ELSE processAdjustmentNoLookup(r, c)

ProcessTransaction(r, c) ==
    IF c.TransactionType = TypePurchase THEN processPurchase(r, c)
    ELSE IF c.TransactionType \in {TypeReversalPurchase, TypeRefund}
    THEN processAdjustment(r, c)
    ELSE Outcome(r, EmptyResult, ErrInvalidTransactionType)

----------------------------------------------------------------------------
(* Queries: each is one call of a Repository getter under the read lock.   *)

Answered(r, op, arg, ret) ==
    /\ reads' = [reads EXCEPT ![r] = [op |-> op, arg |-> arg, ret |-> ret]]
    /\ UNCHANGED <<repo, pc, cmd, original, obj, result, err, unit, mu>>

\* Service.GetTransaction
GetTransaction(r, id) ==
    Answered(r, "GetTransaction", id, GetTransactionByID(repo, id))

\* Service.ListTransactions
ListAll(r) == Answered(r, "ListTransactions", "", ListTransactions(repo))

\* A direct caller of Repository.GetAdjustmentsByTransactionID.
GetAdjustments(r, id) ==
    Answered(r, "GetAdjustmentsByTransactionID", id,
             GetAdjustmentsByTransactionID(repo, id))

\* What a caller can do to a slice it holds: overwrite a field of its first
\* element, append an element, drop its last element.
MutatedElems(elems, how) ==
    IF how = "set" THEN [elems EXCEPT ![1].ID = "mutated"]
    ELSE IF how = "append" THEN Append(elems, ZeroTransaction)
    ELSE SubSeq(elems, 1, Len(elems) - 1)

\* The caller modifies the slice it was handed.  Writing to an element
\* writes to the backing array: when that array is the ledger's, the
\* ledger's element changes with it.  Appending and reslicing change the
\* caller's slice header only.
MutateReturned(r, how) ==
    /\ reads[r].op = "GetAdjustmentsByTransactionID"
    /\ how \in {"set", "append", "truncate"}
    /\ how \in {"set", "truncate"} => Len(reads[r].ret.elems) > 0
    /\ reads' = [reads EXCEPT ![r] =
           [op |-> "mutated", arg |-> reads[r].arg,
            ret |-> [reads[r].ret EXCEPT !.elems = MutatedElems(@, how)]]]
    /\ repo' = IF reads[r].ret.shared /\ how = "set"
               THEN [repo EXCEPT !.adjustments[reads[r].arg][1].ID = "mutated"]
               ELSE repo
    /\ UNCHANGED <<pc, cmd, original, obj, result, err, unit, mu>>

----------------------------------------------------------------------------
(* The save methods statement by statement.  Lock() waits until nobody     *)
(* holds the mutex; RLock() of a getter waits while a writer holds it, so  *)
(* a getter (one step: RLock, read, RUnlock) runs only while mu is free.   *)

RLocked == mu.writer = ""

\* A direct caller of Repository.GetByIdempotencyKey.
GetIdempotencyKey(r, key) ==
    Answered(r, "GetByIdempotencyKey", key, GetByIdempotencyKey(repo, key))

\* r.mu.Lock() at the head of SaveTransaction and of SaveAdjustment.
Lock(w) ==
    /\ pc[w] \in {"SaveTransaction", "SaveAdjustment"}
    /\ mu.writer \in {"", w}
    /\ mu.readers = {}
    /\ mu' = [mu EXCEPT !.writer = w]
    /\ pc' = [pc EXCEPT ![w] = IF pc[w] = "SaveTransaction"
                               THEN "SaveTransaction.locked"
                               ELSE "SaveAdjustment.locked"]
    /\ UNCHANGED <<repo, cmd, original, obj, result, err, reads, unit>>

\* r.mu.Unlock(): the readers that were blocked behind the writer now hold
\* the read lock.
Released == [writer |-> "", readers |-> mu.waiting, waiting |-> {}]

\* The save returns: the deferred r.mu.Unlock(), then the Service's return.
Unlock(w, res, e) ==
    /\ mu' = Released
    /\ pc' = [pc EXCEPT ![w] = "done"]
    /\ original' = [original EXCEPT ![w] = ZeroTransaction]
    /\ obj' = [obj EXCEPT ![w] = ZeroTransaction]
    /\ result' = [result EXCEPT ![w] = res]
    /\ err' = [err EXCEPT ![w] = e]
    /\ UNCHANGED <<cmd, reads, unit>>

\* The save goes on to its next statement, still holding the lock.
Holding(w, label) ==
    /\ pc' = [pc EXCEPT ![w] = label]
    /\ UNCHANGED <<cmd, original, obj, result, err, reads, unit, mu>>

\* Mutant: the lock is released between the two map writes.
SaveTransactionRecordKeyUnlocksEarly(w) ==
    /\ pc[w] = "SaveTransaction.locked"
    /\ LET tx == obj[w]
       IN  IF tx.Event.IdempotencyKey \in DOMAIN repo.idempotencyKeys
           THEN /\ repo' = repo
                /\ Unlock(w, Replay(cmd[w]), ErrDuplicateIdempotencyKey)
           ELSE IF tx.ID \in DOMAIN repo.transactions
           THEN /\ repo' = repo
                /\ Unlock(w, EmptyResult, ErrDuplicateTransactionID)
           ELSE /\ repo' = [repo EXCEPT !.idempotencyKeys =
                                Put(@, tx.Event.IdempotencyKey, tx.ID)]
                /\ pc' = [pc EXCEPT ![w] = "SaveTransaction.keyed"]
                /\ mu' = Released
                /\ UNCHANGED <<cmd, original, obj, result, err, reads, unit>>

\* SaveTransaction: the two checks and the write of idempotencyKeys.
SaveTransactionRecordKey(w) ==
    /\ pc[w] = "SaveTransaction.locked"
    /\ LET tx == obj[w]
       IN  IF tx.Event.IdempotencyKey \in DOMAIN repo.idempotencyKeys
           THEN /\ repo' = repo
                /\ Unlock(w, Replay(cmd[w]), ErrDuplicateIdempotencyKey)
           ELSE IF tx.ID \in DOMAIN repo.transactions
           THEN /\ repo' = repo
                /\ Unlock(w, EmptyResult, ErrDuplicateTransactionID)
           ELSE /\ repo' = [repo EXCEPT !.idempotencyKeys =
                                Put(@, tx.Event.IdempotencyKey, tx.ID)]
                /\ Holding(w, "SaveTransaction.keyed")

\* SaveTransaction: the write of transactions and the return.
SaveTransactionStore(w) ==
    /\ pc[w] = "SaveTransaction.keyed"
    /\ repo' = [repo EXCEPT !.transactions = Put(@, obj[w].ID, obj[w])]
    /\ Unlock(w, [TransactionID |-> obj[w].ID, Idempotent |-> FALSE], Nil)

\* SaveAdjustment: the check and the write of idempotencyKeys.
SaveAdjustmentRecordKey(w) ==
    /\ pc[w] = "SaveAdjustment.locked"
    /\ LET adj == obj[w]
       IN  IF adj.Event.IdempotencyKey \in DOMAIN repo.idempotencyKeys
           THEN /\ repo' = repo
                /\ Unlock(w, Replay(cmd[w]), ErrDuplicateIdempotencyKey)
           ELSE /\ repo' = [repo EXCEPT !.idempotencyKeys =
                                Put(@, adj.Event.IdempotencyKey, adj.ID)]
                /\ Holding(w, "SaveAdjustment.keyed")

\* SaveAdjustment: the append to adjustments and the return.
SaveAdjustmentStore(w) ==
    /\ pc[w] = "SaveAdjustment.keyed"
    /\ repo' = [repo EXCEPT !.adjustments =
                    Put(@, obj[w].OriginalTransactionID,
                        Append(Adjustments(repo, obj[w].OriginalTransactionID),
                               obj[w]))]
    /\ Unlock(w, [TransactionID |-> obj[w].ID, Idempotent |-> FALSE], Nil)

(* The getters statement by statement.  RLock() returns at once unless a   *)
(* writer is inside Lock() .. Unlock(); then it blocks until that writer's *)
(* Unlock().  Lock() first announces the writer, which makes later RLock() *)
(* calls block, then waits until the readers that hold the lock have left. *)

\* r.mu.Lock() is entered: the writer announces itself.
LockAnnounce(w) ==
    /\ pc[w] \in {"SaveTransaction", "SaveAdjustment"}
    /\ mu.writer = ""
    /\ mu' = [mu EXCEPT !.writer = w]
    /\ UNCHANGED <<repo, pc, cmd, original, obj, result, err, reads, unit>>

\* r.mu.RLock() called by p.
RLockBy(p) ==
    IF mu.writer = "" THEN [mu EXCEPT !.readers = @ \cup {p}]
    ELSE [mu EXCEPT !.waiting = @ \cup {p}]

\* The deferred r.mu.RUnlock() of p.
RUnlockBy(p) == [mu EXCEPT !.readers = @ \ {p}]

\* ProcessTransaction up to the first ledger call of processPurchase or of
\* processAdjustment.
Accept(w, c) ==
    /\ Idle(w)
    /\ c.TransactionType \in {TypePurchase, TypeReversalPurchase, TypeRefund}
    /\ IF c.TransactionType # TypePurchase /\ c.OriginalTransactionID = ""
       THEN Return(w, c, EmptyResult, ErrOriginalTransactionRequired)
       ELSE Goto(w, c, "GetByIdempotencyKey", ZeroTransaction, ZeroTransaction)
    /\ UNCHANGED repo

\* r.mu.RLock() at the head of the getter the request is about to run.
RLock(w) ==
    /\ pc[w] \in {"GetByIdempotencyKey", "GetTransactionByID",
                  "GetAdjustmentsByTransactionID"}
    /\ pc' = [pc EXCEPT ![w] =
                 IF pc[w] = "GetByIdempotencyKey"
                 THEN "GetByIdempotencyKey.RLock"
                 ELSE IF pc[w] = "GetTransactionByID"
                 THEN "GetTransactionByID.RLock"
                 ELSE "GetAdjustmentsByTransactionID.RLock"]
    /\ mu' = RLockBy(w)
    /\ UNCHANGED <<repo, cmd, original, obj, result, err, reads, unit>>

\* The getter returns, releasing the read lock, and the Service returns.
ReadReturn(w, res, e) ==
    /\ mu' = RUnlockBy(w)
    /\ pc' = [pc EXCEPT ![w] = "done"]
    /\ original' = [original EXCEPT ![w] = ZeroTransaction]
    /\ obj' = [obj EXCEPT ![w] = ZeroTransaction]
    /\ result' = [result EXCEPT ![w] = res]
    /\ err' = [err EXCEPT ![w] = e]
    /\ UNCHANGED <<repo, cmd, reads, unit>>

\* The getter returns, releasing the read lock, and the Service goes on.
ReadGoto(w, label, orig, o) ==
    /\ mu' = RUnlockBy(w)
    /\ pc' = [pc EXCEPT ![w] = label]
    /\ original' = [original EXCEPT ![w] = orig]
    /\ obj' = [obj EXCEPT ![w] = o]
    /\ UNCHANGED <<repo, cmd, result, err, reads, unit>>

\* Mutant: the replay path of the lookup returns without RUnlock().
ReadIdempotencyKeyKeepsLock(w) ==
    /\ pc[w] = "GetByIdempotencyKey.RLock"
    /\ w \in mu.readers
    /\ LET tx == BuildPurchase(cmd[w])
       IN  IF GetByIdempotencyKey(repo, cmd[w].IdempotencyKey).ok
           THEN /\ pc' = [pc EXCEPT ![w] = "done"]
                /\ result' = [result EXCEPT ![w] = Replay(cmd[w])]
                /\ err' = [err EXCEPT ![w] = ErrDuplicateIdempotencyKey]
                /\ UNCHANGED <<repo, cmd, original, obj, reads, unit, mu>>
           ELSE IF cmd[w].TransactionType # TypePurchase
           THEN ReadGoto(w, "GetTransactionByID", ZeroTransaction,
                         ZeroTransaction)
           ELSE IF tx.err # Nil
           THEN ReadReturn(w, EmptyResult, tx.err)
           ELSE ReadGoto(w, "SaveTransaction", ZeroTransaction, tx.val)

\* GetByIdempotencyKey under the read lock, then, in processPurchase, the
\* constructors.
ReadIdempotencyKey(w) ==
    /\ pc[w] = "GetByIdempotencyKey.RLock"
    /\ w \in mu.readers
    /\ LET tx == BuildPurchase(cmd[w])
       IN  IF GetByIdempotencyKey(repo, cmd[w].IdempotencyKey).ok
           THEN ReadReturn(w, Replay(cmd[w]), ErrDuplicateIdempotencyKey)
           ELSE IF cmd[w].TransactionType # TypePurchase
           THEN ReadGoto(w, "GetTransactionByID", ZeroTransaction,
                         ZeroTransaction)
           ELSE IF tx.err # Nil
           THEN ReadReturn(w, EmptyResult, tx.err)
           ELSE ReadGoto(w, "SaveTransaction", ZeroTransaction, tx.val)

\* GetTransactionByID under the read lock, then the constructors.
ReadOriginal(w) ==
    /\ pc[w] = "GetTransactionByID.RLock"
    /\ w \in mu.readers
    /\ LET got == GetTransactionByID(repo, cmd[w].OriginalTransactionID)
           adj == BuildAdjustment(cmd[w])
       IN  IF got.err # Nil
           THEN ReadReturn(w, EmptyResult, got.err)
           ELSE IF adj.err # Nil
           THEN ReadReturn(w, EmptyResult, adj.err)
           ELSE ReadGoto(w, "GetAdjustmentsByTransactionID", got.val, adj.val)

\* GetAdjustmentsByTransactionID under the read lock, then the sum and
\* ValidateAgainstPurchase.
ReadAdjustments(w) ==
    /\ pc[w] = "GetAdjustmentsByTransactionID.RLock"
    /\ w \in mu.readers
    /\ LET existingAdjs ==
               GetAdjustmentsByTransactionID(repo, cmd[w].OriginalTransactionID)
           existingTotal ==
               sumExistingAdjustments(existingAdjs.elems, cmd[w].LocalCurrency)
           e == ValidateAgainstPurchase(obj[w], original[w], existingTotal.val)
       IN  IF existingTotal.err # Nil
           THEN ReadReturn(w, EmptyResult, existingTotal.err)
           ELSE IF e # Nil
           THEN ReadReturn(w, EmptyResult, e)
           ELSE ReadGoto(w, "SaveAdjustment", original[w], obj[w])

\* Service.GetTransaction / Service.ListTransactions is called: the RLock()
\* at the head of the Repository getter.
CallQuery(r, op, arg) ==
    /\ reads[r].op \notin {"GetTransaction.RLock", "ListTransactions.RLock"}
    /\ reads' = [reads EXCEPT ![r] =
                    [op |-> IF op = "GetTransaction"
                            THEN "GetTransaction.RLock"
                            ELSE "ListTransactions.RLock",
                     arg |-> arg, ret |-> NoRead.ret]]
    /\ mu' = RLockBy(r)
    /\ UNCHANGED <<repo, pc, cmd, original, obj, result, err, unit>>

\* The getter reads under the read lock and returns, releasing it.
AnswerQuery(r) ==
    /\ reads[r].op \in {"GetTransaction.RLock", "ListTransactions.RLock"}
    /\ r \in mu.readers
    /\ reads' = [reads EXCEPT ![r] =
                    IF reads[r].op = "GetTransaction.RLock"
                    THEN [op |-> "GetTransaction", arg |-> reads[r].arg,
                          ret |-> GetTransactionByID(repo, reads[r].arg)]
                    ELSE [op |-> "ListTransactions", arg |-> reads[r].arg,
                          ret |-> ListTransactions(repo)]]
    /\ mu' = RUnlockBy(r)
    /\ UNCHANGED <<repo, pc, cmd, original, obj, result, err, unit>>

----------------------------------------------------------------------------
(* The events the sender delivers                                          *)

\* A command as the test helpers makePurchaseCmd / makeAdjustCmd build it:
\* the four amounts equal, one currency.
Cmd(id, type, status, orig, amount, currency, key) ==
    [TransactionID |-> id, TransactionType |-> type,
     TransactionStatus |-> status, OriginalTransactionID |-> orig,
     LocalAmount |-> amount, LocalCurrency |-> currency,
     TxAmount |-> amount, TxCurrency |-> currency,
     SettlementAmount |-> amount, SettlementCurrency |-> currency,
     OriginalAmount |-> amount, OriginalCurrency |-> currency,
     EventID |-> "evt", IdempotencyKey |-> key]

NoCmd == Cmd("", "", "", "", 0, "", "")

TxIDs == {"t1", "t2"}
Statuses == {StatusApproved, StatusRejected}
UnknownTypeCmd == Cmd("t1", "CHARGEBACK", StatusApproved, "", 100, "BRL", "k1")

\* Concurrent deliveries: one purchase ID under two keys, and adjustments
\* of it whose IDs and keys collide with each other and with the purchase.
PurchaseCmds ==
    {Cmd("t1", TypePurchase, st, "", 100, "BRL", k) :
        st \in Statuses, k \in {"k1", "k2"}}

AdjustmentKinds ==
    {<<TypeRefund, StatusApproved, 60>>,
     <<TypeReversalPurchase, StatusApproved, 100>>,
     <<TypeRefund, StatusRejected, 100>>}

AdjustmentCmds ==
    {Cmd(id, x[1], x[2], "t1", x[3], "BRL", k) :
        id \in TxIDs, x \in AdjustmentKinds, k \in {"k2", "k3"}}

Commands == PurchaseCmds \cup AdjustmentCmds \cup {UnknownTypeCmd}

\* One delivery at a time, idempotency keys k1 .. kNumKeys: a purchase and
\* every kind of adjustment of it around the budget boundary.
NumKeys == 3
KeyNames == <<"k1", "k2", "k3", "k4", "k5">>
IdemKeys == {KeyNames[i] : i \in 1..NumKeys}

SeqAdjustmentKinds ==
    {<<TypeRefund, StatusApproved, a, "BRL">> : a \in {0, 1, 50, 60, 100}}
    \cup {<<TypeReversalPurchase, StatusApproved, a, "BRL">> : a \in {50, 100}}
    \cup {<<TypeRefund, StatusApproved, MaxInt64, "BRL">>,
          <<TypeRefund, StatusApproved, 50, "USD">>,
          <<TypeRefund, StatusRejected, 100, "BRL">>,
          <<TypeReversalPurchase, StatusRejected, 200, "USD">>}

SeqCommands ==
    {Cmd("t1", TypePurchase, st, "", 100, "BRL", "k1") : st \in Statuses}
    \cup {Cmd("t2", x[1], x[2], "t1", x[3], x[4], k) :
            x \in SeqAdjustmentKinds, k \in IdemKeys}
    \cup {UnknownTypeCmd}

\* Redelivery after a failure: an adjustment that may arrive before its
\* purchase, redelivered under the same key or another one.
RetryCommands ==
    {Cmd("t1", TypePurchase, st, "", 100, "BRL", "k1") : st \in Statuses}
    \cup {Cmd("t2", x[1], x[2], "t1", x[3], "BRL", k) :
            x \in AdjustmentKinds, k \in IdemKeys}
    \cup {UnknownTypeCmd}

\* The zero value of sync.RWMutex.
NoLock == [writer |-> "", readers |-> {}, waiting |-> {}]

Init ==
    /\ repo = NewRepository
    /\ pc = [w \in Workers |-> "idle"]
    /\ cmd = [w \in Workers |-> NoCmd]
    /\ original = [w \in Workers |-> ZeroTransaction]
    /\ obj = [w \in Workers |-> ZeroTransaction]
    /\ result = [w \in Workers |-> EmptyResult]
    /\ err = [w \in Workers |-> Nil]
    /\ reads = [r \in Readers |-> NoRead]
    /\ unit = NoCall
    /\ mu = NoLock

Next ==
    \E w \in Workers :
        \/ \E c \in Commands : RejectUnknownType(w, c)
        \/ \E c \in Commands : BeginPurchase(w, c)
        \/ \E c \in Commands : BeginAdjustment(w, c)
        \/ CommitPurchase(w)
        \/ FetchOriginal(w)
        \/ CheckBudget(w)
        \/ CommitAdjustment(w)

Spec == Init /\ [][Next]_vars

\* Events processed one at a time: a single request in flight.
SeqNext ==
    \/ \E c \in SeqCommands : RejectUnknownType("w1", c)
    \/ \E c \in SeqCommands : BeginPurchase("w1", c)
    \/ \E c \in SeqCommands : BeginAdjustment("w1", c)
    \/ CommitPurchase("w1")
    \/ FetchOriginal("w1")
    \/ CheckBudget("w1")
    \/ CommitAdjustment("w1")

SeqSpec == Init /\ [][SeqNext]_vars

\* Events processed one at a time by either worker: the other worker's
\* last request stays on record.
RetryNext ==
    \E w \in Workers :
        /\ \A v \in Workers \ {w} : Idle(v)
        /\ \/ \E c \in RetryCommands : RejectUnknownType(w, c)
           \/ \E c \in RetryCommands : BeginPurchase(w, c)
           \/ \E c \in RetryCommands : BeginAdjustment(w, c)
           \/ CommitPurchase(w)
           \/ FetchOriginal(w)
           \/ CheckBudget(w)
           \/ CommitAdjustment(w)

RetrySpec == Init /\ [][RetryNext]_vars

\* Concurrent deliveries that end in every way the Service can end: each
\* error condition, a replay and a success, for purchases and adjustments.
MixedCommands ==
    {Cmd("t1", TypePurchase, StatusApproved, "", 100, "BRL", "k1"),
     Cmd("t1", TypePurchase, StatusApproved, "", 100, "BRL", "k2"),
     Cmd("t2", TypePurchase, StatusRejected, "", 100, "BRL", "k2"),
     Cmd("t2", TypePurchase, StatusApproved, "", 99, "BRL", "k3"),
     Cmd("t2", TypePurchase, StatusApproved, "", -1, "BRL", "k3"),
     [Cmd("t2", TypePurchase, StatusApproved, "", 100, "BRL", "k3")
         EXCEPT !.EventID = ""],
     Cmd("t3", TypeRefund, StatusApproved, "t1", 60, "BRL", "k3"),
     Cmd("t3", TypeReversalPurchase, StatusApproved, "t1", 200, "BRL", "k4"),
     Cmd("t3", TypeRefund, StatusApproved, "t1", 50, "USD", "k4"),
     Cmd("t3", TypeRefund, StatusApproved, "t1", -1, "BRL", "k4"),
     Cmd("t3", TypeRefund, StatusApproved, "t2", 60, "BRL", "k3"),
     Cmd("t3", TypeRefund, StatusApproved, "t9", 60, "BRL", "k4"),
     Cmd("t3", TypeRefund, StatusApproved, "", 60, "BRL", "k4"),
     UnknownTypeCmd}

MixedNext ==
    \E w \in Workers :
        \/ \E c \in MixedCommands : RejectUnknownType(w, c)
        \/ \E c \in MixedCommands : BeginPurchase(w, c)
        \/ \E c \in MixedCommands : BeginAdjustment(w, c)
        \/ CommitPurchase(w)
        \/ FetchOriginal(w)
        \/ CheckBudget(w)
        \/ CommitAdjustment(w)

MixedSpec == Init /\ [][MixedNext]_vars

\* Deliveries and queries side by side: two purchases that compete for one
\* transaction ID, and two adjustments of it, one of which reuses the
\* purchase's ID.
ReadCommands ==
    {Cmd("t1", TypePurchase, StatusApproved, "", 100, "BRL", "k1"),
     Cmd("t1", TypePurchase, StatusRejected, "", 100, "BRL", "k2"),
     Cmd("t2", TypeRefund, StatusApproved, "t1", 60, "BRL", "k3"),
     Cmd("t1", TypeReversalPurchase, StatusApproved, "t1", 40, "BRL", "k4")}

ReadNext ==
    \/ \E w \in Workers :
          \/ \E c \in ReadCommands : BeginPurchase(w, c)
          \/ \E c \in ReadCommands : BeginAdjustment(w, c)
          \/ CommitPurchase(w)
          \/ FetchOriginal(w)
          \/ CheckBudget(w)
          \/ CommitAdjustment(w)
    \/ \E id \in TxIDs : GetTransaction("r1", id)
    \/ ListAll("r1")
    \/ \E id \in TxIDs : GetAdjustments("r1", id)
    \/ \E how \in {"set", "append", "truncate"} : MutateReturned("r1", how)

ReadSpec == Init /\ [][ReadNext]_vars

\* Deliveries and queries side by side, the saves statement by statement.
LockNext ==
    \/ \E w \in Workers :
          \/ \E c \in ReadCommands : RLocked /\ BeginPurchase(w, c)
          \/ \E c \in ReadCommands : RLocked /\ BeginAdjustment(w, c)
          \/ RLocked /\ FetchOriginal(w)
          \/ RLocked /\ CheckBudget(w)
          \/ Lock(w)
          \/ SaveTransactionRecordKey(w)
          \/ SaveTransactionStore(w)
          \/ SaveAdjustmentRecordKey(w)
          \/ SaveAdjustmentStore(w)
    \/ \E k \in {"k1", "k2", "k3", "k4"} : RLocked /\ GetIdempotencyKey("r1", k)
    \/ \E id \in TxIDs : RLocked /\ GetTransaction("r1", id)
    \/ RLocked /\ ListAll("r1")
    \/ \E id \in TxIDs : RLocked /\ GetAdjustments("r1", id)

LockSpec == Init /\ [][LockNext]_vars

\* One delivery at a time, adjustments in which several checks fail at
\* once: no reference or a reference to nothing, a recorded key, a negative
\* amount, no ID, no event ID, a rejected purchase, too large an amount,
\* another currency.
PrecedenceCommands ==
    {Cmd("t1", TypePurchase, st, "", 100, "BRL", "k1") : st \in Statuses}
    \cup {[Cmd(id, TypeRefund, StatusApproved, orig, a, cur, k)
              EXCEPT !.EventID = ev] :
            id \in {"", "t2"}, orig \in {"", "t1", "t9"}, a \in {-1, 60, 200},
            cur \in {"BRL", "USD"}, k \in {"k1", "k2"}, ev \in {"", "evt"}}

PrecedenceNext ==
    \/ \E c \in PrecedenceCommands : BeginPurchase("w1", c)
    \/ \E c \in PrecedenceCommands : BeginAdjustment("w1", c)
    \/ CommitPurchase("w1")
    \/ FetchOriginal("w1")
    \/ CheckBudget("w1")
    \/ CommitAdjustment("w1")

PrecedenceSpec == Init /\ [][PrecedenceNext]_vars

\* Every writer commits one purchase of its own, with an ID and a key no
\* other writer uses, while the readers list the transactions.
OwnPurchases(w) ==
    IF w = "w1"
    THEN {Cmd("t1", TypePurchase, st, "", 100, "BRL", "k1") : st \in Statuses}
    ELSE {Cmd("t2", TypePurchase, st, "", 200, "BRL", "k2") : st \in Statuses}

ConcNext ==
    \/ \E w \in Workers :
          \E c \in OwnPurchases(w) : pc[w] = "idle" /\ BeginPurchase(w, c)
    \/ \E w \in Workers : CommitPurchase(w)
    \/ \E r \in Readers : ListAll(r)

ConcSpec == Init /\ [][ConcNext]_vars

\* Purchases whose four amounts differ, one delivery at a time: every
\* amount may be negative, the local one lies around the two limits, and
\* the transaction id, the event id or the idempotency key may be empty.
AmountCommands ==
    {[Cmd(id, TypePurchase, StatusApproved, "", l, "BRL", k) EXCEPT
          !.TxAmount = t, !.SettlementAmount = s, !.OriginalAmount = o] :
        id \in {"", "t1"}, k \in {"k1", "k2"},
        l \in {-1, 0, MinPurchaseAmount - 1, MinPurchaseAmount,
               MaxPurchaseAmount, MaxPurchaseAmount + 1},
        t \in {-1, 0}, s \in {-1, 0}, o \in {-1, 0, MinPurchaseAmount}}
    \cup {[Cmd("t1", TypePurchase, StatusApproved, "", l, "BRL", k) EXCEPT
              !.EventID = ev] :
            k \in {"", "k1", "k2"}, ev \in {"", "evt"},
            l \in {-1, MinPurchaseAmount, MaxPurchaseAmount + 1}}

AmountNext ==
    \/ \E c \in AmountCommands : BeginPurchase("w1", c)
    \/ CommitPurchase("w1")

AmountSpec == Init /\ [][AmountNext]_vars

\* Commands handed to the Service itself, whose TransactionStatus is a
\* plain string: the two statuses and one that is neither.
StatusStrings == Statuses \cup {"PENDING"}

StatusCommands ==
    {Cmd("t1", TypePurchase, st, "", 100, "BRL", "k1") : st \in StatusStrings}
    \cup {Cmd("t2", ty, st, "t1", 50, "BRL", k) :
            ty \in {TypeRefund, TypeReversalPurchase},
            st \in StatusStrings, k \in {"k2", "k3"}}
    \cup {UnknownTypeCmd}

StatusNext ==
    \/ \E c \in StatusCommands : RejectUnknownType("w1", c)
    \/ \E c \in StatusCommands : BeginPurchase("w1", c)
    \/ \E c \in StatusCommands : BeginAdjustment("w1", c)
    \/ CommitPurchase("w1")
    \/ FetchOriginal("w1")
    \/ CheckBudget("w1")
    \/ CommitAdjustment("w1")

StatusSpec == Init /\ [][StatusNext]_vars

\* Two events delivered concurrently to a ledger that already holds three
\* purchases and a refund: w1 first delivers the SetupCommands one after
\* the other, then each worker delivers one event, the second of them one
\* that shares neither key, nor transaction ID, nor purchase with the
\* first.
SetupCommands ==
    <<Cmd("t1", TypePurchase, StatusApproved, "", 100, "BRL", "k1"),
      Cmd("t2", TypePurchase, StatusApproved, "", 100, "BRL", "k2"),
      Cmd("t3", TypePurchase, StatusRejected, "", 100, "BRL", "k3"),
      Cmd("t4", TypeRefund, StatusApproved, "t1", 60, "BRL", "k4")>>

PairEvents ==
    {Cmd(id, TypePurchase, StatusApproved, "", a, "BRL", k) :
        id \in {"t1", "t7", "t8"}, a \in {99, 200}, k \in {"k1", "k7", "k8"}}
    \cup {Cmd(id, TypeRefund, StatusApproved, o, a, "BRL", k) :
            id \in {"t7", "t8"}, o \in {"t1", "t2", "t3"}, a \in {40, 50},
            k \in {"k1", "k7", "k8"}}
    \cup {Cmd(id, TypeReversalPurchase, StatusRejected, o, 100, "BRL", k) :
            id \in {"t7", "t8"}, o \in {"t1", "t2"}, k \in {"k7", "k8"}}

\* The purchase an event concerns.
Concerns(c) ==
    IF c.TransactionType = TypePurchase THEN c.TransactionID
    ELSE c.OriginalTransactionID

Independent(c, d) ==
    /\ c.IdempotencyKey # d.IdempotencyKey
    /\ c.TransactionID # d.TransactionID
    /\ Concerns(c) # Concerns(d)

SetupComplete ==
    \/ pc["w1"] = "done" /\ cmd["w1"] = SetupCommands[Len(SetupCommands)]
    \/ cmd["w1"] \in PairEvents

HasBegun(w) == pc[w] # "idle" /\ cmd[w] \in PairEvents

Deliver(w, c) == BeginPurchase(w, c) \/ BeginAdjustment(w, c)

DeliverSetup ==
    \E i \in 1..Len(SetupCommands) :
        /\ IF i = 1 THEN pc["w1"] = "idle"
           ELSE pc["w1"] = "done" /\ cmd["w1"] = SetupCommands[i - 1]
        /\ Deliver("w1", SetupCommands[i])

DeliverOfPair(w) ==
    \E c \in PairEvents :
        /\ SetupComplete
        /\ ~HasBegun(w)
        /\ \A v \in Workers \ {w} : HasBegun(v) => Independent(c, cmd[v])
        /\ Deliver(w, c)

CommuteNext ==
    \/ DeliverSetup
    \/ \E w \in Workers : DeliverOfPair(w)
    \/ \E w \in Workers : CommitPurchase(w)
    \/ \E w \in Workers : FetchOriginal(w)
    \/ \E w \in Workers : CheckBudget(w)
    \/ \E w \in Workers : CommitAdjustment(w)

CommuteSpec == Init /\ [][CommuteNext]_vars

\* Two requests and two queries side by side, every lock operation a step
\* of its own.  A request that is inside the Service keeps running, a
\* query that is inside a getter keeps running, and a writer waiting at
\* Lock() is not passed over for ever; whether another request or query
\* arrives is up to the callers.
FairCommands ==
    {Cmd("t1", TypePurchase, StatusApproved, "", 100, "BRL", "k1"),
     Cmd("t1", TypePurchase, StatusApproved, "", 100, "BRL", "k2"),
     Cmd("t2", TypeRefund, StatusApproved, "t1", 60, "BRL", "k3"),
     Cmd("t2", TypeRefund, StatusApproved, "t9", 60, "BRL", "k3"),
     Cmd("t2", TypeRefund, StatusApproved, "", 60, "BRL", "k3"),
     UnknownTypeCmd}

Proceed(w) ==
    \/ RLock(w)
    \/ ReadIdempotencyKey(w)
    \/ ReadOriginal(w)
    \/ ReadAdjustments(w)
    \/ Lock(w)
    \/ SaveTransactionRecordKey(w)
    \/ SaveTransactionStore(w)
    \/ SaveAdjustmentRecordKey(w)
    \/ SaveAdjustmentStore(w)

FairNext ==
    \/ \E w \in Workers : \E c \in FairCommands : RejectUnknownType(w, c)
    \/ \E w \in Workers : \E c \in FairCommands : Accept(w, c)
    \/ \E w \in Workers : LockAnnounce(w)
    \/ \E w \in Workers : Proceed(w)
    \/ CallQuery("r1", "GetTransaction", "t1")
    \/ CallQuery("r2", "ListTransactions", "")
    \/ \E r \in Readers : AnswerQuery(r)

FairSpec ==
    /\ Init
    /\ [][FairNext]_vars
    /\ \A w \in Workers : WF_vars(Proceed(w)) /\ SF_vars(LockAnnounce(w))
    /\ \A r \in Readers : WF_vars(AnswerQuery(r))

----------------------------------------------------------------------------
(* HTTP adapter: the webhook handler in front of a use case.               *)

StatusOK == 200
StatusBadRequest == 400
StatusNotFound == 404
StatusConflict == 409
StatusUnprocessableEntity == 422
StatusInternalServerError == 500

\* An error that is none of the domain's sentinels.
ErrOther == "errors.New(\"boom\")"

\* time.Parse(time.RFC3339, s) succeeds on these strings.
RFC3339Strings == {"2024-01-01T00:00:00Z"}

\* WebhookRequestDTO.ToCommand: the required fields, then the command.
ToCommand(d) ==
    IF d.ID = "" THEN [err |-> "id is required", val |-> NoCmd]
    ELSE IF d.Type = "" THEN [err |-> "type is required", val |-> NoCmd]
    ELSE IF d.EventID = "" THEN [err |-> "event.id is required", val |-> NoCmd]
    ELSE IF d.IdempotencyKey = ""
    THEN [err |-> "event.idempotency_key is required", val |-> NoCmd]
    ELSE IF d.Status # "APPROVED" /\ d.Status # "REJECTED"
    THEN [err |-> "status must be APPROVED or REJECTED", val |-> NoCmd]
    ELSE IF d.CreatedAt \notin RFC3339Strings
    THEN [err |-> "event.created_at must be RFC3339", val |-> NoCmd]
    ELSE [err |-> Nil,
          val |-> [TransactionID |-> d.ID, TransactionType |-> d.Type,
                   TransactionStatus |-> d.Status,
                   OriginalTransactionID |-> d.OriginalTransactionID,
                   LocalAmount |-> d.LocalAmount,
                   LocalCurrency |-> d.LocalCurrency,
                   TxAmount |-> d.TxAmount, TxCurrency |-> d.TxCurrency,
                   SettlementAmount |-> d.SettlementAmount,
                   SettlementCurrency |-> d.SettlementCurrency,
                   OriginalAmount |-> d.OriginalAmount,
                   OriginalCurrency |-> d.OriginalCurrency,
                   EventID |-> d.EventID,
                   IdempotencyKey |-> d.IdempotencyKey]]

\* writeJSON with a WebhookResponseDTO; writeError.
writeJSON(status, transactionID, idempotent) ==
    [Status |-> status, Code |-> "", TransactionID |-> transactionID,
     Idempotent |-> idempotent]

writeError(status, code) ==
    [Status |-> status, Code |-> code, TransactionID |-> "",
     Idempotent |-> FALSE]

\* Mutant: an amount out of range is answered as a bad request.
handleDomainErrorRangeAsBadRequest(e, res) ==
    IF e = ErrDuplicateIdempotencyKey
    THEN writeJSON(StatusOK, res.TransactionID, TRUE)
    ELSE IF e = ErrTransactionNotFound
    THEN writeError(StatusNotFound, "NOT_FOUND")
    ELSE IF e = ErrExceedsOriginalAmount
    THEN writeError(StatusConflict, "EXCEEDS_ORIGINAL_AMOUNT")
    ELSE IF e = ErrPurchaseNotApproved
    THEN writeError(StatusConflict, "PURCHASE_NOT_APPROVED")
    ELSE IF e = ErrDuplicateTransactionID
    THEN writeError(StatusConflict, "DUPLICATE_TRANSACTION_ID")
    ELSE IF e = ErrAmountOutOfRange
    THEN writeError(StatusBadRequest, "AMOUNT_OUT_OF_RANGE")
    ELSE IF e = ErrNegativeAmount
    THEN writeError(StatusBadRequest, "NEGATIVE_AMOUNT")
    ELSE IF e = ErrOriginalTransactionRequired
    THEN writeError(StatusBadRequest, "ORIGINAL_TRANSACTION_REQUIRED")
    ELSE IF e = ErrCurrencyMismatch
    THEN writeError(StatusBadRequest, "CURRENCY_MISMATCH")
    ELSE IF e = ErrInvalidTransactionType
    THEN writeError(StatusBadRequest, "INVALID_TRANSACTION_TYPE")
    ELSE IF e = ErrInvalidInput
    THEN writeError(StatusBadRequest, "INVALID_INPUT")
    ELSE writeError(StatusInternalServerError, "INTERNAL_ERROR")

\* Handler.handleDomainError: the switch over errors.Is, first match wins.
handleDomainError(e, res) ==
    IF e = ErrDuplicateIdempotencyKey
    THEN writeJSON(StatusOK, res.TransactionID, TRUE)
    ELSE IF e = ErrTransactionNotFound
    THEN writeError(StatusNotFound, "NOT_FOUND")
    ELSE IF e = ErrExceedsOriginalAmount
    THEN writeError(StatusConflict, "EXCEEDS_ORIGINAL_AMOUNT")
    ELSE IF e = ErrPurchaseNotApproved
    THEN writeError(StatusConflict, "PURCHASE_NOT_APPROVED")
    ELSE IF e = ErrDuplicateTransactionID
    THEN writeError(StatusConflict, "DUPLICATE_TRANSACTION_ID")
    ELSE IF e = ErrAmountOutOfRange
    THEN writeError(StatusUnprocessableEntity, "AMOUNT_OUT_OF_RANGE")
    ELSE IF e = ErrNegativeAmount
    THEN writeError(StatusBadRequest, "NEGATIVE_AMOUNT")
    ELSE IF e = ErrOriginalTransactionRequired
    THEN writeError(StatusBadRequest, "ORIGINAL_TRANSACTION_REQUIRED")
    ELSE IF e = ErrCurrencyMismatch
    THEN writeError(StatusBadRequest, "CURRENCY_MISMATCH")
    ELSE IF e = ErrInvalidTransactionType
    THEN writeError(StatusBadRequest, "INVALID_TRANSACTION_TYPE")
    ELSE IF e = ErrInvalidInput
    THEN writeError(StatusBadRequest, "INVALID_INPUT")
    ELSE writeError(StatusInternalServerError, "INTERNAL_ERROR")

\* Handler.handleWebhook in front of a use case that answers
\* (mock.processResult, mock.processErr), as the handler tests' mockUseCase.
handleWebhook(body, mock) ==
    IF ~body.decodes THEN writeError(StatusBadRequest, "BAD_REQUEST")
    ELSE IF ToCommand(body.dto).err # Nil
    THEN writeError(StatusBadRequest, "VALIDATION_ERROR")
    ELSE IF mock.processErr # Nil
    THEN handleDomainError(mock.processErr, mock.processResult)
    ELSE writeJSON(StatusOK, mock.processResult.TransactionID, FALSE)

----------------------------------------------------------------------------
(* The domain functions called directly, as the domain tests call them:    *)
(* each call is one step that records the function, its arguments and what *)
(* it returned.  The functions keep no state, so every call starts from    *)
(* the initial state, as every test case does.                             *)

Called(fn, args, ret) ==
    /\ unit.fn = ""
    /\ unit' = [fn |-> fn, args |-> args, ret |-> ret]
    /\ UNCHANGED <<repo, pc, cmd, original, obj, result, err, reads, mu>>

CallNewMoney(amount, currency) ==
    Called("NewMoney", <<amount, currency>>, NewMoney(amount, currency))

CallAdd(m, other) == Called("Add", <<m, other>>, Add(m, other))

CallGreaterThan(m, other) ==
    Called("GreaterThan", <<m, other>>, GreaterThan(m, other))

CallNewPurchase(id, status, amount, event) ==
    Called("NewPurchase", <<id, status, amount, event>>,
           NewPurchase(id, status, amount, event))

CallNewAdjustment(id, txType, status, amount, event, originalTransactionID) ==
    Called("NewAdjustment",
           <<id, txType, status, amount, event, originalTransactionID>>,
           NewAdjustment(id, txType, status, amount, event,
                         originalTransactionID))

CallValidateAgainstPurchase(a, orig, existingTotal) ==
    Called("ValidateAgainstPurchase", <<a, orig, existingTotal>>,
           ValidateAgainstPurchase(a, orig, existingTotal))

\* The arguments of the direct calls.
Currencies == {"BRL", "brl", "USD"}
RawAmounts == {MinInt64, -1, 0, 1, 50, 100, MaxInt64}
Moneys ==
    {[Amount |-> a, Currency |-> c] :
        a \in {0, 1, 50, 100, MaxInt64 - 1, MaxInt64}, c \in Currencies}

LocalAmounts ==
    {-1, 0, MinPurchaseAmount - 1, MinPurchaseAmount, MinPurchaseAmount + 1,
     MaxPurchaseAmount - 1, MaxPurchaseAmount, MaxPurchaseAmount + 1, MaxInt64}
OtherAmounts == {0, MaxPurchaseAmount + 1}

Breakdowns ==
    {[Local |-> [Amount |-> l, Currency |-> "BRL"],
      Transaction |-> [Amount |-> t, Currency |-> "BRL"],
      Settlement |-> [Amount |-> t, Currency |-> "USD"],
      Original |-> [Amount |-> o, Currency |-> "BRL"]] :
        l \in LocalAmounts, t \in OtherAmounts, o \in OtherAmounts}

Events ==
    {[ID |-> e, IdempotencyKey |-> k] : e \in {"", "evt"}, k \in {"", "k1"}}

\* What ValidateAgainstPurchase is given: adjustments and purchases as the
\* constructors build them, a PURCHASE record retyped as a REFUND, and
\* running totals in either currency.
ValidatedAdjustments ==
    {BuildAdjustment(Cmd("t2", ty, st, "t1", a, c, "k2")).val :
        ty \in {TypeRefund, TypeReversalPurchase}, st \in Statuses,
        a \in {0, 1, 50, 51, 100, MaxInt64}, c \in {"BRL", "USD"}}

ValidatedPurchases ==
    LET built == {BuildPurchase(Cmd("t1", TypePurchase, st, "", 100, c, "k1")).val :
                     st \in Statuses, c \in {"BRL", "USD"}}
    IN  built \cup {[p EXCEPT !.Type = TypeRefund] : p \in built}

RunningTotals ==
    {[Amount |-> a, Currency |-> c] :
        a \in {0, 50, 100, MaxInt64}, c \in {"BRL", "USD"}}

\* The types a constructor may be handed: the three known ones, another.
TransactionTypes ==
    {TypePurchase, TypeReversalPurchase, TypeRefund, "CHARGEBACK"}

DomainNext ==
    \/ \E a \in RawAmounts, c \in Currencies : CallNewMoney(a, c)
    \/ \E m \in Moneys, other \in Moneys : CallAdd(m, other)
    \/ \E m \in Moneys, other \in Moneys : CallGreaterThan(m, other)
    \/ \E id \in {"", "t1"}, st \in Statuses, amount \in Breakdowns,
          event \in Events : CallNewPurchase(id, st, amount, event)
    \/ \E id \in {"", "t2"}, ty \in TransactionTypes, st \in Statuses,
          amount \in Breakdowns, event \in Events, orig \in {"", "t1"} :
             CallNewAdjustment(id, ty, st, amount, event, orig)
    \/ \E a \in ValidatedAdjustments, orig \in ValidatedPurchases,
          total \in RunningTotals : CallValidateAgainstPurchase(a, orig, total)

DomainSpec == Init /\ [][DomainNext]_vars

\* The handler called as the handler tests call it: a request body and a
\* use case that answers what the test sets up.
CallhandleWebhook(body, mock) ==
    Called("handleWebhook", <<body, mock>>, handleWebhook(body, mock))

\* buildWebhookBody
ValidDTO ==
    [ID |-> "tx1", Type |-> TypePurchase, Status |-> StatusApproved,
     OriginalTransactionID |-> "",
     LocalAmount |-> 1000, LocalCurrency |-> "BRL",
     TxAmount |-> 1000, TxCurrency |-> "BRL",
     SettlementAmount |-> 1000, SettlementCurrency |-> "BRL",
     OriginalAmount |-> 1000, OriginalCurrency |-> "BRL",
     EventID |-> "evt1", CreatedAt |-> "2024-01-01T00:00:00Z",
     IdempotencyKey |-> "idem1"]

Bodies ==
    {[decodes |-> FALSE, dto |-> ValidDTO]}
    \cup {[decodes |-> TRUE, dto |-> d] :
            d \in {ValidDTO,
                   [ValidDTO EXCEPT !.ID = ""],
                   [ValidDTO EXCEPT !.Type = ""],
                   [ValidDTO EXCEPT !.EventID = ""],
                   [ValidDTO EXCEPT !.IdempotencyKey = ""],
                   [ValidDTO EXCEPT !.Status = "PENDING"],
                   [ValidDTO EXCEPT !.CreatedAt = "yesterday"],
                   [ValidDTO EXCEPT !.Type = TypeRefund,
                                    !.OriginalTransactionID = "tx0"]}}

DomainErrors ==
    {ErrTransactionNotFound, ErrPurchaseNotApproved, ErrExceedsOriginalAmount,
     ErrNegativeAmount, ErrAmountOutOfRange, ErrCurrencyMismatch,
     ErrInvalidTransactionType, ErrDuplicateIdempotencyKey,
     ErrOriginalTransactionRequired, ErrDuplicateTransactionID,
     ErrInvalidInput}

MockUseCases ==
    {[processResult |-> [TransactionID |-> id, Idempotent |-> i],
      processErr |-> e] :
        id \in {"", "tx1"}, i \in BOOLEAN,
        e \in DomainErrors \cup {Nil, ErrOther}}

HandlerNext ==
    \E body \in Bodies, mock \in MockUseCases : CallhandleWebhook(body, mock)

HandlerSpec == Init /\ [][HandlerNext]_vars

----------------------------------------------------------------------------
(* Properties                                                              *)

RECURSIVE SumLocal(_)
SumLocal(adjs) ==
    IF adjs = <<>> THEN 0
    ELSE (IF Head(adjs).Status = StatusApproved
          THEN Head(adjs).Amount.Local.Amount ELSE 0) + SumLocal(Tail(adjs))

\* Sum of the local amounts of the APPROVED adjustments stored under id.
ApprovedTotal(r, id) == SumLocal(Adjustments(r, id))

\* Every record (purchase or adjustment) the ledger holds.
StoredRecords(r) ==
    {r.transactions[i] : i \in DOMAIN r.transactions}
    \cup UNION {{r.adjustments[i][n] : n \in 1..Len(r.adjustments[i])} :
                  i \in DOMAIN r.adjustments}

\* How many entries the ledger holds whose event carries key k.
RecordCount(r, k) ==
    Cardinality({i \in DOMAIN r.transactions :
                    r.transactions[i].Event.IdempotencyKey = k})
    + Cardinality({x \in UNION {{<<i, n>> : n \in 1..Len(r.adjustments[i])} :
                                  i \in DOMAIN r.adjustments} :
                    r.adjustments[x[1]][x[2]].Event.IdempotencyKey = k})

IsAdjustmentCmd(c) == c.TransactionType \in {TypeReversalPurchase, TypeRefund}

\* The record a command stands for, as the constructors build it.
RecordOf(c) ==
    IF c.TransactionType = TypePurchase THEN BuildPurchase(c).val
    ELSE BuildAdjustment(c).val

InFlight(w) == pc[w] \notin {"idle", "done"}

(* C1: in every reachable ledger state, for every purchase P, the local    *)
(* amounts of the APPROVED adjustments stored under P's id sum to at most  *)
(* P's local amount, whatever the interleaving of the requests.            *)
C1_BudgetInvariant ==
    \A id \in DOMAIN repo.transactions :
        ApprovedTotal(repo, id) <= repo.transactions[id].Amount.Local.Amount

(* C2: when requests carrying the same event (same idempotency key) are    *)
(* processed concurrently, the one that is still in flight when the other  *)
(* has committed ends with DuplicateIdempotencyKey as an idempotent        *)
(* replay, and the ledger holds exactly one record for every recorded key. *)
C2_ExactlyOncePerKey ==
    [][\A w \in Workers :
          /\ ( /\ InFlight(w)
               /\ pc'[w] = "done"
               /\ cmd[w].IdempotencyKey \in DOMAIN repo.idempotencyKeys
               /\ RecordOf(cmd[w]) \in StoredRecords(repo) )
             => ( /\ err'[w] = ErrDuplicateIdempotencyKey
                  /\ result'[w].Idempotent )
          /\ \A k \in DOMAIN repo'.idempotencyKeys : RecordCount(repo', k) = 1
      ]_vars

\* The purchase command c stands for is stored under c's id and key.
PurchaseCommitted(r, c) ==
    /\ c.TransactionType = TypePurchase
    /\ c.IdempotencyKey \in DOMAIN r.idempotencyKeys
    /\ r.idempotencyKeys[c.IdempotencyKey] = c.TransactionID
    /\ c.TransactionID \in DOMAIN r.transactions
    /\ r.transactions[c.TransactionID] = RecordOf(c)

\* How many entries of listTransactions() carry transaction ID id.
ListedTimes(r, id) ==
    LET listed == ListTransactions(r)
        hits == {t \in DOMAIN listed : t.ID = id}
    IN  IF hits = {} THEN 0
        ELSE IF Cardinality(hits) = 1 THEN listed[CHOOSE t \in hits : TRUE]
        ELSE 2

(* C3: one delivery at a time, a valid purchase is answered with           *)
(* idempotent=false when it is first committed, and every later delivery   *)
(* of the same purchase (same id, same key) is answered with               *)
(* idempotent=true and the same transactionId, leaves the ledger as it     *)
(* was, and listTransactions() holds that purchase exactly once.           *)
C3_SequentialReplay ==
    [][\A w \in Workers :
          (pc'[w] = "done" /\ cmd'[w].TransactionType = TypePurchase) =>
             /\ PurchaseCommitted(repo, cmd'[w]) =>
                   /\ err'[w] = ErrDuplicateIdempotencyKey
                   /\ result'[w] = [TransactionID |-> cmd'[w].TransactionID,
                                    Idempotent |-> TRUE]
                   /\ repo' = repo
                   /\ ListedTimes(repo', cmd'[w].TransactionID) = 1
             /\ err'[w] = Nil =>
                   /\ ~PurchaseCommitted(repo, cmd'[w])
                   /\ PurchaseCommitted(repo', cmd'[w])
                   /\ result'[w] = [TransactionID |-> cmd'[w].TransactionID,
                                    Idempotent |-> FALSE]
                   /\ ListedTimes(repo', cmd'[w].TransactionID) = 1
      ]_vars

\* A redelivered purchase was answered as a replay.
C3_Witness ==
    /\ pc["w1"] = "done"
    /\ PurchaseCommitted(repo, cmd["w1"])
    /\ err["w1"] = ErrDuplicateIdempotencyKey
    /\ result["w1"].Idempotent

(* C4: a purchase whose transaction ID is already stored and whose         *)
(* idempotency key is new fails at SaveTransaction with                    *)
(* DuplicateTransactionID and leaves the three mappings as they were; of   *)
(* two purchases with the same ID and different keys at most one commits.  *)
C4_TransactionIDConflict ==
    [][\A w \in Workers :
          /\ ( /\ pc[w] = "SaveTransaction"
               /\ pc'[w] = "done"
               /\ obj[w].ID \in DOMAIN repo.transactions
               /\ obj[w].Event.IdempotencyKey \notin DOMAIN repo.idempotencyKeys )
             => ( /\ err'[w] = ErrDuplicateTransactionID
                  /\ result'[w] = EmptyResult
                  /\ repo' = repo )
          /\ \A v \in Workers \ {w} :
               ( /\ pc'[w] = "done" /\ pc'[v] = "done"
                 /\ cmd'[w].TransactionType = TypePurchase
                 /\ cmd'[v].TransactionType = TypePurchase
                 /\ cmd'[w].TransactionID = cmd'[v].TransactionID
                 /\ cmd'[w].IdempotencyKey # cmd'[v].IdempotencyKey )
               => ~(err'[w] = Nil /\ err'[v] = Nil)
      ]_vars

\* Two purchases with one ID and two keys: one committed, the other refused.
C4_Witness ==
    /\ pc["w1"] = "done" /\ pc["w2"] = "done"
    /\ cmd["w1"].TransactionType = TypePurchase
    /\ cmd["w2"].TransactionType = TypePurchase
    /\ cmd["w1"].TransactionID = cmd["w2"].TransactionID
    /\ cmd["w1"].IdempotencyKey # cmd["w2"].IdempotencyKey
    /\ err["w1"] = Nil
    /\ err["w2"] = ErrDuplicateTransactionID
    /\ cmd["w2"].IdempotencyKey \notin DOMAIN repo.idempotencyKeys

(* C5: once the ledger maps an idempotency key to a transaction ID, every  *)
(* later state maps that key to the same ID.                               *)
C5_KeyMappingStable ==
    [][\A k \in DOMAIN repo.idempotencyKeys :
          /\ k \in DOMAIN repo'.idempotencyKeys
          /\ repo'.idempotencyKeys[k] = repo.idempotencyKeys[k]
      ]_vars

\* A request reaches SaveAdjustment with a key that was recorded meanwhile
\* under another transaction ID.
C5_Witness ==
    \E w \in Workers :
        /\ pc[w] = "SaveAdjustment"
        /\ obj[w].Event.IdempotencyKey \in DOMAIN repo.idempotencyKeys
        /\ repo.idempotencyKeys[obj[w].Event.IdempotencyKey] # obj[w].ID

(* C6: in every reachable ledger state no transaction ID is the value of   *)
(* two different idempotency keys, for purchases and adjustments alike.    *)
C6_OneKeyPerTransactionID ==
    \A k1, k2 \in DOMAIN repo.idempotencyKeys :
        k1 # k2 => repo.idempotencyKeys[k1] # repo.idempotencyKeys[k2]

(* C7: one delivery at a time, an APPROVED adjustment in the purchase's    *)
(* currency that reaches the budget check of an APPROVED purchase P goes   *)
(* on to be committed if and only if the local amounts of the APPROVED     *)
(* adjustments stored for P plus its own are at most P's local amount;     *)
(* otherwise it fails with ExceedsOriginalAmount and the ledger is left as *)
(* it was.  REVERSAL_PURCHASE and REFUND draw on the same total.           *)
C7_SequentialAdmission ==
    [][\A w \in Workers :
          /\ ( /\ pc[w] = "GetAdjustmentsByTransactionID"
               /\ pc'[w] # pc[w]
               /\ obj[w].Status = StatusApproved
               /\ IsApprovedPurchase(original[w])
               /\ obj[w].Amount.Local.Currency
                    = original[w].Amount.Local.Currency )
             => IF ApprovedTotal(repo, original[w].ID)
                     + obj[w].Amount.Local.Amount
                   <= original[w].Amount.Local.Amount
                THEN pc'[w] = "SaveAdjustment"
                ELSE /\ pc'[w] = "done"
                     /\ err'[w] = ErrExceedsOriginalAmount
                     /\ result'[w] = EmptyResult
                     /\ repo' = repo
          /\ ( pc[w] = "SaveAdjustment" /\ pc'[w] = "done" )
             => /\ err'[w] = Nil
                /\ result'[w] = [TransactionID |-> obj[w].ID,
                                 Idempotent |-> FALSE]
                /\ Adjustments(repo', obj[w].OriginalTransactionID)
                     = Append(Adjustments(repo, obj[w].OriginalTransactionID),
                              obj[w])
      ]_vars

\* A reversal used the budget up exactly; a refund of 1 was then refused.
C7_Witness ==
    /\ pc["w1"] = "done"
    /\ err["w1"] = ErrExceedsOriginalAmount
    /\ cmd["w1"].TransactionType = TypeRefund
    /\ cmd["w1"].LocalAmount = 1
    /\ "t1" \in DOMAIN repo.transactions
    /\ ApprovedTotal(repo, "t1") = repo.transactions["t1"].Amount.Local.Amount
    /\ \E n \in 1..Len(Adjustments(repo, "t1")) :
           Adjustments(repo, "t1")[n].Type = TypeReversalPurchase

\* The budget check of processAdjustment (steps 5 and 6) lets command c
\* through in ledger r.
Admitted(r, c) ==
    LET existingTotal ==
            sumExistingAdjustments(
                GetAdjustmentsByTransactionID(r, c.OriginalTransactionID).elems,
                c.LocalCurrency)
    IN  /\ c.OriginalTransactionID \in DOMAIN r.transactions
        /\ existingTotal.err = Nil
        /\ ValidateAgainstPurchase(RecordOf(c),
                                   r.transactions[c.OriginalTransactionID],
                                   existingTotal.val) = Nil

(* C8: committing an adjustment whose status is not APPROVED, whatever its *)
(* amount, leaves the approved total of its purchase unchanged and does    *)
(* not change which APPROVED adjustments the budget check admits.          *)
C8_RejectedConsumeNoBudget ==
    [][\A w \in Workers :
          ( /\ pc[w] = "SaveAdjustment"
            /\ obj[w].Status # StatusApproved
            /\ repo' # repo )
          => /\ ApprovedTotal(repo', obj[w].OriginalTransactionID)
                  = ApprovedTotal(repo, obj[w].OriginalTransactionID)
             /\ \A c \in SeqCommands :
                   (IsAdjustmentCmd(c) /\ c.TransactionStatus = StatusApproved)
                   => (Admitted(repo', c) <=> Admitted(repo, c))
      ]_vars

\* A rejected adjustment of the whole purchase amount or more is stored,
\* and an approved one of the whole amount was admitted after it.
C8_Witness ==
    LET adjs == Adjustments(repo, "t1")
    IN  /\ Len(adjs) >= 2
        /\ adjs[1].Status = StatusRejected
        /\ adjs[1].Amount.Local.Amount >= 100
        /\ adjs[2].Status = StatusApproved
        /\ adjs[2].Amount.Local.Amount = 100

(* C9: an adjustment of any type and status that references a stored       *)
(* purchase whose status is not APPROVED passes GetTransactionByID and     *)
(* fails the validation with PurchaseNotApproved, leaving the ledger as it *)
(* was; so the adjustment list of a non-approved purchase is empty in      *)
(* every reachable state.                                                  *)
C9_ApprovalGating ==
    [][/\ \A w \in Workers :
            LET id == cmd[w].OriginalTransactionID
                gated == /\ id \in DOMAIN repo.transactions
                         /\ repo.transactions[id].Status # StatusApproved
            IN  /\ (pc[w] = "GetTransactionByID" /\ pc'[w] # pc[w] /\ gated)
                   => pc'[w] = "GetAdjustmentsByTransactionID"
                /\ (pc[w] = "GetAdjustmentsByTransactionID"
                      /\ pc'[w] # pc[w] /\ gated)
                   => /\ pc'[w] = "done"
                      /\ err'[w] = ErrPurchaseNotApproved
                      /\ result'[w] = EmptyResult
                      /\ repo' = repo
       /\ \A id \in DOMAIN repo'.transactions :
            repo'.transactions[id].Status # StatusApproved
            => Adjustments(repo', id) = <<>>
      ]_vars

\* A rejected adjustment of a rejected purchase was refused.
C9_Witness ==
    \E w \in Workers :
        /\ pc[w] = "done"
        /\ err[w] = ErrPurchaseNotApproved
        /\ cmd[w].TransactionStatus = StatusRejected
        /\ cmd[w].OriginalTransactionID \in DOMAIN repo.transactions
        /\ repo.transactions[cmd[w].OriginalTransactionID].Status = StatusRejected

\* Command c, processed alone in ledger r, is within the budget of the
\* approved purchase it references and its key is not recorded.
Deliverable(r, c) ==
    /\ IsAdjustmentCmd(c)
    /\ c.IdempotencyKey \notin DOMAIN r.idempotencyKeys
    /\ c.OriginalTransactionID \in DOMAIN r.transactions
    /\ LET P == r.transactions[c.OriginalTransactionID]
       IN  /\ P.Status = StatusApproved
           /\ c.LocalCurrency = P.Amount.Local.Currency
           /\ c.TransactionStatus = StatusApproved
              => ApprovedTotal(r, P.ID) + c.LocalAmount <= P.Amount.Local.Amount

(* C10: one delivery at a time, an adjustment whose purchase is not in the *)
(* ledger fails with TransactionNotFound and records nothing, neither the  *)
(* adjustment nor its key; and an adjustment whose key is not recorded and *)
(* whose APPROVED purchase is stored succeeds, within budget, with         *)
(* idempotent=false and is appended, also when an earlier delivery of the  *)
(* same adjustment, under that key or another, had failed.                 *)
C10_OutOfOrder ==
    [][\A w \in Workers :
          /\ ( /\ pc[w] = "GetTransactionByID"
               /\ pc'[w] # pc[w]
               /\ cmd[w].OriginalTransactionID \notin DOMAIN repo.transactions )
             => /\ pc'[w] = "done"
                /\ err'[w] = ErrTransactionNotFound
                /\ result'[w] = EmptyResult
                /\ repo' = repo
                /\ cmd[w].IdempotencyKey \notin DOMAIN repo'.idempotencyKeys
          /\ ( pc'[w] = "done" /\ pc[w] # "done" /\ Deliverable(repo, cmd'[w]) )
             => /\ err'[w] = Nil
                /\ result'[w] = [TransactionID |-> cmd'[w].TransactionID,
                                 Idempotent |-> FALSE]
                /\ Adjustments(repo', cmd'[w].OriginalTransactionID)
                     = Append(Adjustments(repo, cmd'[w].OriginalTransactionID),
                              RecordOf(cmd'[w]))
                /\ repo'.idempotencyKeys[cmd'[w].IdempotencyKey]
                     = cmd'[w].TransactionID
      ]_vars

\* The same adjustment, same key: refused before its purchase was stored,
\* accepted after.
C10_Witness ==
    \E w, v \in Workers :
        /\ w # v
        /\ pc[w] = "done" /\ pc[v] = "done"
        /\ IsAdjustmentCmd(cmd[w])
        /\ cmd[v] = cmd[w]
        /\ err[v] = ErrTransactionNotFound
        /\ err[w] = Nil
        /\ ~result[w].Idempotent

(* C11: NewPurchase, given a non-empty id, event id and idempotency key,   *)
(* succeeds if and only if 100 <= local amount <= 500000 and otherwise     *)
(* fails with AmountOutOfRange; the transaction, settlement and original   *)
(* amounts are not looked at, and the purchase built carries the amounts   *)
(* it was given.                                                           *)
C11_PurchaseAmountRange ==
    (unit.fn = "NewPurchase"
       /\ unit.args[1] # "" /\ unit.args[4].ID # ""
       /\ unit.args[4].IdempotencyKey # "")
    => LET a == unit.args[3].Local.Amount
       IN  /\ (unit.ret.err = Nil) <=> (100 <= a /\ a <= 500000)
           /\ unit.ret.err \in {Nil, ErrAmountOutOfRange}
           /\ a \in {0, 99, 500001} => unit.ret.err = ErrAmountOutOfRange
           /\ unit.ret.err = Nil
              => /\ unit.ret.val.Amount = unit.args[3]
                 /\ unit.ret.val.ID = unit.args[1]
                 /\ unit.ret.val.Type = TypePurchase

\* A purchase of exactly the lower limit was built although its other
\* amounts are above the upper limit.
C11_Witness ==
    /\ unit.fn = "NewPurchase"
    /\ unit.ret.err = Nil
    /\ unit.args[3].Local.Amount = 100
    /\ unit.args[3].Transaction.Amount > 500000
    /\ unit.args[3].Original.Amount > 500000

\* Worker w takes up a new command in this step.
Begins(w) ==
    /\ Idle(w)
    /\ <<pc[w], cmd[w], result[w], err[w]>>
         # <<pc'[w], cmd'[w], result'[w], err'[w]>>

AnyNegative(c) ==
    \/ c.LocalAmount < 0 \/ c.TxAmount < 0
    \/ c.SettlementAmount < 0 \/ c.OriginalAmount < 0

(* C12: a PURCHASE event whose idempotency key is not recorded and in      *)
(* which any of the four amounts is negative ends at once with             *)
(* NegativeAmount and an empty result, the ledger left as it was; no       *)
(* purchase event with a negative amount ever ends with AmountOutOfRange   *)
(* or with success.                                                        *)
C12_NegativePrecedesRange ==
    [][\A w \in Workers :
          /\ ( /\ Begins(w)
               /\ cmd'[w].TransactionType = TypePurchase
               /\ cmd'[w].IdempotencyKey \notin DOMAIN repo.idempotencyKeys
               /\ AnyNegative(cmd'[w]) )
             => /\ pc'[w] = "done"
                /\ err'[w] = ErrNegativeAmount
                /\ result'[w] = EmptyResult
                /\ repo' = repo
          /\ ( /\ pc'[w] = "done"
               /\ cmd'[w].TransactionType = TypePurchase
               /\ AnyNegative(cmd'[w]) )
             => err'[w] \in {ErrNegativeAmount, ErrDuplicateIdempotencyKey}
      ]_vars

\* A purchase below the lower limit whose original amount is negative was
\* refused for the negative amount, with a purchase already in the ledger.
C12_Witness ==
    /\ pc["w1"] = "done"
    /\ err["w1"] = ErrNegativeAmount
    /\ cmd["w1"].LocalAmount = 99
    /\ cmd["w1"].TxAmount >= 0 /\ cmd["w1"].SettlementAmount >= 0
    /\ cmd["w1"].OriginalAmount = -1
    /\ cmd["w1"].IdempotencyKey \notin DOMAIN repo.idempotencyKeys
    /\ repo.transactions # EmptyMap

Moved(w) ==
    <<pc[w], cmd[w], result[w], err[w]>>
      # <<pc'[w], cmd'[w], result'[w], err'[w]>>

\* How many records (purchases and adjustments) the ledger holds.
EntryCount(r) ==
    Cardinality(DOMAIN r.transactions)
    + Cardinality(UNION {{<<i, n>> : n \in 1..Len(r.adjustments[i])} :
                           i \in DOMAIN r.adjustments})

(* C14: a request that returns an error, DuplicateIdempotencyKey included, *)
(* changes none of the three ledger mappings; the ledger changes only in   *)
(* the save step of a request that returns success, and that step adds     *)
(* exactly one record and exactly one idempotency key, the record's,       *)
(* mapped to the record's ID.                                              *)
C14_AllOrNothing ==
    [][/\ \A w \in Workers :
            (Moved(w) /\ pc'[w] = "done" /\ err'[w] # Nil) => repo' = repo
       /\ repo' # repo =>
            \E w \in Workers :
                LET k == obj[w].Event.IdempotencyKey
                IN  /\ pc[w] \in {"SaveTransaction", "SaveAdjustment"}
                    /\ pc'[w] = "done"
                    /\ err'[w] = Nil
                    /\ k \notin DOMAIN repo.idempotencyKeys
                    /\ DOMAIN repo'.idempotencyKeys
                         = DOMAIN repo.idempotencyKeys \cup {k}
                    /\ repo'.idempotencyKeys[k] = obj[w].ID
                    /\ \A j \in DOMAIN repo.idempotencyKeys :
                         repo'.idempotencyKeys[j] = repo.idempotencyKeys[j]
                    /\ EntryCount(repo') = EntryCount(repo) + 1
                    /\ StoredRecords(repo') = StoredRecords(repo) \cup {obj[w]}
                    /\ RecordCount(repo', k) = 1
      ]_vars

\* A purchase was refused at the save step for its transaction ID: its key
\* is not recorded and the ledger holds the other purchase only.
C14_Witness ==
    \E w \in Workers :
        /\ pc[w] = "done"
        /\ err[w] = ErrDuplicateTransactionID
        /\ cmd[w].IdempotencyKey \notin DOMAIN repo.idempotencyKeys
        /\ DOMAIN repo.transactions = {cmd[w].TransactionID}

\* Transaction ID id is stored as a purchase in ledger r.
Found(r, id) == GetTransactionByID(r, id).err = Nil

(* C15: GetTransactionByID(id) answers TransactionNotFound, with no        *)
(* purchase, exactly as long as no purchase with that id has been          *)
(* committed: nothing is found in the initial ledger, an id becomes found  *)
(* only in the step in which a purchase with that id is committed, and     *)
(* from then on the answer is that purchase exactly as committed.  The     *)
(* answer is never a purchase together with an error nor an empty purchase *)
(* without one.                                                            *)
C15_AbsentTransaction ==
    /\ \A id \in TxIDs : ~Found(repo, id)
    /\ [][/\ \A id \in TxIDs :
              /\ Found(repo, id)
                 => GetTransactionByID(repo', id) = GetTransactionByID(repo, id)
              /\ (~Found(repo, id) /\ Found(repo', id))
                 => \E w \in Workers :
                        /\ pc[w] = "SaveTransaction" /\ pc'[w] = "done"
                        /\ err'[w] = Nil
                        /\ cmd[w].TransactionID = id
                        /\ GetTransactionByID(repo', id).val = RecordOf(cmd[w])
          /\ \A w \in Workers :
              (pc[w] = "SaveTransaction" /\ pc'[w] = "done" /\ err'[w] = Nil)
              => GetTransactionByID(repo', cmd[w].TransactionID)
                   = [err |-> Nil, val |-> RecordOf(cmd[w])]
          /\ \A r \in Readers :
              reads'[r].op = "GetTransaction"
              => /\ reads'[r].ret.err \in {Nil, ErrTransactionNotFound}
                 /\ reads'[r].ret.err = ErrTransactionNotFound
                    <=> reads'[r].ret.val = ZeroTransaction
                 /\ reads'[r].ret.err = Nil
                    => /\ reads'[r].ret.val.ID = reads'[r].arg
                       /\ reads'[r].ret.val.Type = TypePurchase
         ]_vars

\* The reader asked for t2 and was told it is absent, although an
\* adjustment with the ID t2 is stored, under the committed purchase t1.
C15_Witness ==
    /\ reads["r1"].op = "GetTransaction"
    /\ reads["r1"].arg = "t2"
    /\ reads["r1"].ret.err = ErrTransactionNotFound
    /\ Found(repo, "t1")
    /\ \E n \in 1..Len(Adjustments(repo, "t1")) :
           Adjustments(repo, "t1")[n].ID = "t2"

(* C16: whatever a caller does to the list GetAdjustmentsByTransactionID   *)
(* returned (overwriting an element, appending, truncating), the ledger    *)
(* stays as it was: a later GetAdjustmentsByTransactionID returns what it  *)
(* returned before, and every stored record is a record as committed.      *)
C16_DefensiveCopy ==
    [][\A r \in Readers :
          (reads[r].op = "GetAdjustmentsByTransactionID"
             /\ reads'[r].op = "mutated")
          => /\ reads'[r].ret.elems # reads[r].ret.elems
             /\ repo' = repo
             /\ \A id \in TxIDs :
                   GetAdjustmentsByTransactionID(repo', id).elems
                     = GetAdjustmentsByTransactionID(repo, id).elems
             /\ StoredRecords(repo') \subseteq {RecordOf(c) : c \in ReadCommands}
      ]_vars

\* The caller overwrote the ID of the first of two adjustments in its copy;
\* the ledger's first adjustment keeps its ID.
C16_Witness ==
    /\ reads["r1"].op = "mutated"
    /\ Len(reads["r1"].ret.elems) = 2
    /\ reads["r1"].ret.elems[1].ID = "mutated"
    /\ Len(Adjustments(repo, reads["r1"].arg)) = 2
    /\ Adjustments(repo, reads["r1"].arg)[1].ID # "mutated"

\* The purchases the requests that returned success have committed.
CommittedPurchases ==
    {RecordOf(cmd[w]) : w \in {v \in Workers : pc[v] = "done" /\ err[v] = Nil}}

(* C17: writers committing purchases with pairwise distinct IDs and keys   *)
(* while readers list: every commit succeeds, every snapshot holds no      *)
(* entry twice and only committed purchases, and once all writers have     *)
(* returned the ledger holds exactly their purchases, one idempotency      *)
(* record each, and no adjustment.                                         *)
C17_ConcurrentWritersAndListers ==
    /\ \A w \in Workers : pc[w] = "done" => err[w] = Nil
    /\ \A r \in Readers :
          reads[r].op = "ListTransactions"
          => \A t \in DOMAIN reads[r].ret :
                /\ reads[r].ret[t] = 1
                /\ t \in CommittedPurchases
                /\ t.Type = TypePurchase
                /\ \A u \in DOMAIN reads[r].ret : u.ID = t.ID => u = t
    /\ (\A w \in Workers : pc[w] = "done")
          => /\ {repo.transactions[i] : i \in DOMAIN repo.transactions}
                  = {RecordOf(cmd[w]) : w \in Workers}
             /\ Cardinality(DOMAIN repo.transactions) = Cardinality(Workers)
             /\ Cardinality(DOMAIN repo.idempotencyKeys) = Cardinality(Workers)
             /\ \A w \in Workers :
                   /\ cmd[w].IdempotencyKey \in DOMAIN repo.idempotencyKeys
                   /\ repo.idempotencyKeys[cmd[w].IdempotencyKey]
                        = cmd[w].TransactionID
             /\ DOMAIN repo.adjustments = {}

\* Both writers have committed; one reader listed between the two commits
\* and holds one purchase, the other listed after them and holds both.
C17_Witness ==
    /\ \A w \in Workers : pc[w] = "done" /\ err[w] = Nil
    /\ reads["r1"].op = "ListTransactions"
    /\ reads["r2"].op = "ListTransactions"
    /\ Cardinality(DOMAIN reads["r1"].ret) = 1
    /\ Cardinality(DOMAIN reads["r2"].ret) = 2

(* C18: a committed purchase is returned by GetTransactionByID with the    *)
(* same content in every later state, whatever is committed afterwards,    *)
(* adjustments of it included; and the adjustment list of every purchase   *)
(* only grows at its end: the list before a step is a prefix of the list   *)
(* after it.                                                               *)
C18_AppendOnly ==
    [][/\ \A id \in DOMAIN repo.transactions :
            GetTransactionByID(repo', id)
              = [err |-> Nil, val |-> repo.transactions[id]]
       /\ \A id \in TxIDs :
            LET before == GetAdjustmentsByTransactionID(repo, id).elems
                after == GetAdjustmentsByTransactionID(repo', id).elems
            IN  /\ Len(before) <= Len(after)
                /\ SubSeq(after, 1, Len(before)) = before
      ]_vars

\* Purchase t1 is stored as committed although two adjustments of it were
\* appended after it, one of them under the purchase's own ID.
C18_Witness ==
    /\ Found(repo, "t1")
    /\ repo.transactions["t1"].Type = TypePurchase
    /\ Len(Adjustments(repo, "t1")) = 2
    /\ \E n \in 1..2 : Adjustments(repo, "t1")[n].ID = "t1"

(* C19: ValidateAgainstPurchase answers PurchaseNotApproved if the         *)
(* purchase is not an APPROVED PURCHASE, whatever the adjustment's status; *)
(* otherwise ok if the adjustment is not APPROVED; otherwise               *)
(* CurrencyMismatch if the currencies of the running total, the            *)
(* adjustment's local amount and the purchase's local amount are not all   *)
(* the same; otherwise ExceedsOriginalAmount if the running total plus the *)
(* adjustment's local amount is greater than the purchase's local amount;  *)
(* otherwise ok.                                                           *)
C19_ValidationEngine ==
    unit.fn = "ValidateAgainstPurchase" =>
        LET a == unit.args[1]
            orig == unit.args[2]
            total == unit.args[3]
        IN  unit.ret =
              IF ~(orig.Type = TypePurchase /\ orig.Status = StatusApproved)
              THEN ErrPurchaseNotApproved
              ELSE IF a.Status # StatusApproved THEN Nil
              ELSE IF ~( total.Currency = a.Amount.Local.Currency
                         /\ a.Amount.Local.Currency
                              = orig.Amount.Local.Currency )
              THEN ErrCurrencyMismatch
              ELSE IF total.Amount + a.Amount.Local.Amount
                        > orig.Amount.Local.Amount
              THEN ErrExceedsOriginalAmount
              ELSE Nil

(* C20: NewMoney fails with NegativeAmount if and only if the amount is    *)
(* negative, and otherwise returns the amount in the currency; Add and     *)
(* GreaterThan fail with CurrencyMismatch if and only if the two currency  *)
(* strings differ; otherwise Add returns the sum of the two amounts in     *)
(* that currency and GreaterThan returns whether the first amount is       *)
(* strictly greater than the second.                                       *)
C20_MoneyOperations ==
    /\ unit.fn = "NewMoney" =>
          /\ unit.ret.err = ErrNegativeAmount <=> unit.args[1] < 0
          /\ unit.ret.err \in {Nil, ErrNegativeAmount}
          /\ unit.ret.err = Nil
             => unit.ret.val = [Amount |-> unit.args[1],
                                Currency |-> unit.args[2]]
    /\ unit.fn \in {"Add", "GreaterThan"} =>
          /\ unit.ret.err = ErrCurrencyMismatch
             <=> unit.args[1].Currency # unit.args[2].Currency
          /\ unit.ret.err \in {Nil, ErrCurrencyMismatch}
    /\ (unit.fn = "Add" /\ unit.ret.err = Nil) =>
          unit.ret.val = [Amount |-> unit.args[1].Amount + unit.args[2].Amount,
                          Currency |-> unit.args[1].Currency]
    /\ (unit.fn = "GreaterThan" /\ unit.ret.err = Nil) =>
          unit.ret.val = (unit.args[1].Amount > unit.args[2].Amount)

C22_SaveTransactionCheckOrder ==
    [][\A w \in Workers :
          ( pc[w] = "SaveTransaction" /\ pc'[w] # pc[w] )
          => LET keyTaken == obj[w].Event.IdempotencyKey
                               \in DOMAIN repo.idempotencyKeys
                 idTaken == obj[w].ID \in DOMAIN repo.transactions
             IN  /\ keyTaken => err'[w] = ErrDuplicateIdempotencyKey
                 /\ err'[w] = ErrDuplicateTransactionID
                      <=> (~keyTaken /\ idTaken)
                 /\ (keyTaken \/ idTaken) => repo' = repo
      ]_vars

\* A request is in its call of SaveTransaction, past the advisory lookup,
\* with a purchase whose key and whose ID were both stored meanwhile by the
\* same purchase of the other request.
C22_Witness ==
    \E w \in Workers :
        /\ pc[w] = "SaveTransaction"
        /\ obj[w].ID \in DOMAIN repo.transactions
        /\ GetByIdempotencyKey(repo, obj[w].Event.IdempotencyKey).ok
        /\ repo.transactions[obj[w].ID].Event.IdempotencyKey
             = obj[w].Event.IdempotencyKey

\* The record that key k stands for is in the ledger: a purchase stored
\* under the ID the key maps to, or an adjustment with that ID in some list.
KeyResolves(r, k, id) ==
    \/ /\ id \in DOMAIN r.transactions
       /\ r.transactions[id].Event.IdempotencyKey = k
    \/ \E o \in DOMAIN r.adjustments : \E n \in 1..Len(r.adjustments[o]) :
          /\ r.adjustments[o][n].ID = id
          /\ r.adjustments[o][n].Event.IdempotencyKey = k

(* C23: no getter running next to writers observes a half-applied save: in *)
(* every state a getter can read (no writer holds the lock), every         *)
(* recorded idempotency key maps to the ID of a stored purchase or of a    *)
(* stored adjustment committed under that key, and a key a reader was      *)
(* given by GetByIdempotencyKey resolves to such a record.                 *)
C23_AtomicVisibility ==
    /\ RLocked =>
          \A k \in DOMAIN repo.idempotencyKeys :
              KeyResolves(repo, k, repo.idempotencyKeys[k])
    /\ \A r \in Readers :
          ( reads[r].op = "GetByIdempotencyKey" /\ reads[r].ret.ok )
          => KeyResolves(repo, reads[r].arg, reads[r].ret.id)

\* One request holds the write lock between the two map writes of
\* SaveAdjustment (its key is recorded, its adjustment is not in the list
\* yet), and the reader holds the answer GetByIdempotencyKey gave it before
\* for the committed key of the purchase.
C23_Witness ==
    \E w \in Workers :
        /\ mu.writer = w
        /\ pc[w] = "SaveAdjustment.keyed"
        /\ obj[w].Event.IdempotencyKey \in DOMAIN repo.idempotencyKeys
        /\ ~KeyResolves(repo, obj[w].Event.IdempotencyKey, obj[w].ID)
        /\ reads["r1"].op = "GetByIdempotencyKey"
        /\ reads["r1"].ret.ok

\* The step in which request w returns.
Finishes(w) ==
    /\ pc'[w] = "done"
    /\ Begins(w) \/ ~Idle(w)

(* C24: an adjustment event processed on its own ends by the first check   *)
(* that fails, in this order: (1) no originalTransactionId gives           *)
(* OriginalTransactionRequired, also when the key is recorded; (2) a       *)
(* recorded key gives the replay answer, also when the purchase referred   *)
(* to is absent; (3) an absent purchase gives TransactionNotFound, also    *)
(* when an amount is negative; (4) the errors of the constructors          *)
(* (NegativeAmount, InvalidInput); (5) PurchaseNotApproved,                *)
(* CurrencyMismatch or ExceedsOriginalAmount; (6) the commit.              *)
C24_AdjustmentErrorPrecedence ==
    [][ ( Finishes("w1") /\ IsAdjustmentCmd(cmd'["w1"]) )
        => LET c == cmd'["w1"]
               e == err'["w1"]
           IN  IF c.OriginalTransactionID = ""
               THEN e = ErrOriginalTransactionRequired /\ repo' = repo
               ELSE IF c.IdempotencyKey \in DOMAIN repo.idempotencyKeys
               THEN /\ e = ErrDuplicateIdempotencyKey
                    /\ result'["w1"] = [TransactionID |-> c.TransactionID,
                                        Idempotent |-> TRUE]
                    /\ repo' = repo
               ELSE IF c.OriginalTransactionID \notin DOMAIN repo.transactions
               THEN e = ErrTransactionNotFound /\ repo' = repo
               ELSE IF AnyNegative(c)
               THEN e = ErrNegativeAmount /\ repo' = repo
               ELSE IF c.TransactionID = "" \/ c.EventID = ""
                       \/ c.IdempotencyKey = ""
               THEN e = ErrInvalidInput /\ repo' = repo
               ELSE \/ /\ e \in {ErrPurchaseNotApproved, ErrCurrencyMismatch,
                                 ErrExceedsOriginalAmount}
                       /\ repo' = repo
                    \/ /\ e = Nil
                       /\ c.IdempotencyKey \in DOMAIN repo'.idempotencyKeys
      ]_vars

\* An adjustment with no reference, a recorded key, a negative amount and
\* no ID was answered OriginalTransactionRequired.
C24_Witness ==
    /\ pc["w1"] = "done"
    /\ IsAdjustmentCmd(cmd["w1"])
    /\ cmd["w1"].OriginalTransactionID = ""
    /\ cmd["w1"].IdempotencyKey \in DOMAIN repo.idempotencyKeys
    /\ cmd["w1"].LocalAmount < 0
    /\ cmd["w1"].TransactionID = ""
    /\ err["w1"] = ErrOriginalTransactionRequired

(* C25: NewPurchase returns the error of the first failing check in the    *)
(* order: empty id (InvalidInput), empty event id or empty idempotency key *)
(* (InvalidInput), local amount outside 100..500000 (AmountOutOfRange);    *)
(* when it succeeds the purchase has type PURCHASE.                        *)
C25_NewPurchaseOrder ==
    unit.fn = "NewPurchase" =>
        LET id == unit.args[1]
            amount == unit.args[3]
            event == unit.args[4]
        IN  /\ unit.ret.err =
                 IF id = "" THEN ErrInvalidInput
                 ELSE IF event.ID = "" \/ event.IdempotencyKey = ""
                 THEN ErrInvalidInput
                 ELSE IF amount.Local.Amount < 100
                         \/ amount.Local.Amount > 500000
                 THEN ErrAmountOutOfRange
                 ELSE Nil
            /\ unit.ret.err = Nil => unit.ret.val.Type = "PURCHASE"

\* A purchase with no id, no idempotency key and a local amount of 99 was
\* refused as InvalidInput.
C25_Witness ==
    /\ unit.fn = "NewPurchase"
    /\ unit.args[1] = ""
    /\ unit.args[4].IdempotencyKey = ""
    /\ unit.args[3].Local.Amount = 99
    /\ unit.ret.err = ErrInvalidInput

(* C26: NewAdjustment returns the error of the first failing check in the  *)
(* order: type neither REVERSAL_PURCHASE nor REFUND                        *)
(* (InvalidTransactionType), empty originalTransactionId                   *)
(* (OriginalTransactionRequired), empty id (InvalidInput), empty event id  *)
(* or idempotency key (InvalidInput); the amount is not range-checked.     *)
C26_NewAdjustmentOrder ==
    unit.fn = "NewAdjustment" =>
        LET id == unit.args[1]
            txType == unit.args[2]
            amount == unit.args[4]
            event == unit.args[5]
            originalTransactionID == unit.args[6]
        IN  /\ unit.ret.err =
                 IF txType \notin {"REVERSAL_PURCHASE", "REFUND"}
                 THEN ErrInvalidTransactionType
                 ELSE IF originalTransactionID = ""
                 THEN ErrOriginalTransactionRequired
                 ELSE IF id = "" THEN ErrInvalidInput
                 ELSE IF event.ID = "" \/ event.IdempotencyKey = ""
                 THEN ErrInvalidInput
                 ELSE Nil
            /\ unit.ret.err = Nil => unit.ret.val.Amount = amount

\* An adjustment of type PURCHASE with no reference, no id and no event id
\* was refused as InvalidTransactionType.
C26_Witness ==
    /\ unit.fn = "NewAdjustment"
    /\ unit.args[2] = TypePurchase
    /\ unit.args[6] = ""
    /\ unit.args[1] = ""
    /\ unit.args[5].ID = ""
    /\ unit.ret.err = ErrInvalidTransactionType

\* The idempotency records of ledger r stand one-to-one for its entries.
RecordsMatchCommits(r) ==
    /\ Cardinality(DOMAIN r.idempotencyKeys) = EntryCount(r)
    /\ \A x \in StoredRecords(r) :
          /\ x.Event.IdempotencyKey \in DOMAIN r.idempotencyKeys
          /\ r.idempotencyKeys[x.Event.IdempotencyKey] = x.ID

(* C27: in every state of the ledger the number of idempotency records is  *)
(* the number of stored purchases plus the number of stored adjustments,   *)
(* the idempotency key of every stored purchase and adjustment is recorded *)
(* and maps to that record's ID, and a request that ends with an error     *)
(* leaves the idempotency records as they were.                            *)
C27_RecordsMatchCommits ==
    /\ RecordsMatchCommits(repo)
    /\ [][/\ RecordsMatchCommits(repo')
          /\ \A w \in Workers :
                ( pc'[w] = "done" /\ (Begins(w) \/ ~Idle(w)) /\ err'[w] # Nil )
                => repo'.idempotencyKeys = repo.idempotencyKeys
          /\ \A k \in DOMAIN repo'.idempotencyKeys \ DOMAIN repo.idempotencyKeys :
                \E w \in Workers :
                    /\ pc'[w] = "done" /\ ~Idle(w) /\ err'[w] = Nil
                    /\ cmd[w].IdempotencyKey = k
         ]_vars

\* The ledger holds a purchase and an adjustment that carries the
\* purchase's own ID, two idempotency records, and none for the key of a
\* request that has just failed with ExceedsOriginalAmount.
C27_Witness ==
    \E w \in Workers :
        /\ pc[w] = "done"
        /\ err[w] = ErrExceedsOriginalAmount
        /\ cmd[w].IdempotencyKey \notin DOMAIN repo.idempotencyKeys
        /\ Cardinality(DOMAIN repo.idempotencyKeys) = 2
        /\ Len(Adjustments(repo, "t1")) = 1
        /\ Adjustments(repo, "t1")[1].ID = "t1"

(* C28: the advisory idempotency lookup is a pure optimization: a command  *)
(* processed on its own leaves the ledger, and returns the result and the  *)
(* error, that it would with the lookup removed and only the check inside  *)
(* SaveTransaction / SaveAdjustment left.                                  *)
C28_AdvisoryLookupRemovable ==
    [][ Finishes("w1")
        => [repo |-> repo', result |-> result'["w1"], err |-> err'["w1"]]
             = ProcessTransactionNoLookup(repo, cmd'["w1"])
      ]_vars

(* C29: Add on two Money values of one currency with non-negative amounts  *)
(* returns an amount that is non-negative and equal to the sum of the two; *)
(* ValidateAgainstPurchase never accepts an approved adjustment of an      *)
(* approved purchase when the running total plus the adjustment's local    *)
(* amount is greater than the purchase's local amount.                     *)
C29_NoWrapAround ==
    /\ ( /\ unit.fn = "Add"
         /\ unit.args[1].Currency = unit.args[2].Currency
         /\ unit.args[1].Amount >= 0
         /\ unit.args[2].Amount >= 0 )
       => /\ unit.ret.err = Nil
          /\ unit.ret.val.Amount >= 0
          /\ unit.ret.val.Amount = unit.args[1].Amount + unit.args[2].Amount
    /\ ( /\ unit.fn = "ValidateAgainstPurchase"
         /\ unit.args[1].Status = StatusApproved
         /\ IsApprovedPurchase(unit.args[2])
         /\ unit.args[3].Amount >= 0
         /\ unit.args[3].Amount + unit.args[1].Amount.Local.Amount
              > unit.args[2].Amount.Local.Amount )
       => unit.ret # Nil

(* C30: a REVERSAL_PURCHASE or REFUND event with status REJECTED, no       *)
(* negative amount, non-empty ids and an idempotency key that is not       *)
(* recorded, which refers to a stored APPROVED purchase, is committed with *)
(* idempotent=false, whatever its amount, its local currency and the       *)
(* adjustments already stored for that purchase.                           *)
C30_RejectedAlwaysAccepted ==
    [][ LET c == cmd'["w1"]
        IN  ( /\ Finishes("w1")
              /\ IsAdjustmentCmd(c)
              /\ c.TransactionStatus = StatusRejected
              /\ ~AnyNegative(c)
              /\ c.TransactionID # "" /\ c.EventID # ""
              /\ c.IdempotencyKey # ""
              /\ c.IdempotencyKey \notin DOMAIN repo.idempotencyKeys
              /\ c.OriginalTransactionID \in DOMAIN repo.transactions
              /\ IsApprovedPurchase(repo.transactions[c.OriginalTransactionID]) )
            => /\ err'["w1"] = Nil
               /\ result'["w1"] = [TransactionID |-> c.TransactionID,
                                   Idempotent |-> FALSE]
               /\ Adjustments(repo', c.OriginalTransactionID)
                    = Append(Adjustments(repo, c.OriginalTransactionID),
                             RecordOf(c))
      ]_vars

(* C31: whenever a request has returned an idempotent replay               *)
(* (idempotent=true), the transactionId of its result is the transaction   *)
(* ID the ledger has recorded under the command's idempotency key, also    *)
(* when the command carries another transaction ID or another type than    *)
(* the event that recorded the key.                                        *)
C31_ReplayIdentifiesOriginal ==
    \A w \in Workers :
        ( pc[w] = "done" /\ result[w].Idempotent )
        => /\ cmd[w].IdempotencyKey \in DOMAIN repo.idempotencyKeys
           /\ result[w].TransactionID
                = repo.idempotencyKeys[cmd[w].IdempotencyKey]

(* C32: in every state of the ledger, under any interleaving of concurrent *)
(* requests, every stored adjustment is stored under the ID of a purchase  *)
(* that is in the ledger with status APPROVED, which is the purchase it    *)
(* refers to; there is no adjustment list for an ID that has no purchase.  *)
C32_ReferentialIntegrity ==
    \A o \in DOMAIN repo.adjustments :
        /\ o \in DOMAIN repo.transactions
        /\ repo.transactions[o].Type = TypePurchase
        /\ repo.transactions[o].Status = StatusApproved
        /\ \A n \in 1..Len(repo.adjustments[o]) :
              repo.adjustments[o][n].OriginalTransactionID = o

\* An adjustment is stored under the approved purchase t1, the rejected
\* purchase t2 is stored without any, and a request that referred to t2 has
\* failed with PurchaseNotApproved.
C32_Witness ==
    /\ Len(Adjustments(repo, "t1")) = 1
    /\ "t2" \in DOMAIN repo.transactions
    /\ repo.transactions["t2"].Status = StatusRejected
    /\ \E w \in Workers :
          /\ pc[w] = "done"
          /\ err[w] = ErrPurchaseNotApproved
          /\ cmd[w].OriginalTransactionID = "t2"

\* Every stored APPROVED adjustment is in the local currency of the
\* purchase it is stored under.
CurrencyConsistent(r) ==
    \A o \in DOMAIN r.adjustments : \A n \in 1..Len(r.adjustments[o]) :
        r.adjustments[o][n].Status = StatusApproved
        => /\ o \in DOMAIN r.transactions
           /\ r.adjustments[o][n].Amount.Local.Currency
                = r.transactions[o].Amount.Local.Currency

(* C33: in every state of the ledger every stored APPROVED adjustment has  *)
(* the local currency of the purchase it refers to; an approved adjustment *)
(* of an approved purchase whose local currency differs from the           *)
(* purchase's fails the budget check with CurrencyMismatch and is not      *)
(* stored.                                                                 *)
C33_CurrencyConsistency ==
    /\ CurrencyConsistent(repo)
    /\ [][/\ CurrencyConsistent(repo')
          /\ \A w \in Workers :
                ( /\ pc[w] = "GetAdjustmentsByTransactionID"
                  /\ pc'[w] # pc[w]
                  /\ obj[w].Status = StatusApproved
                  /\ IsApprovedPurchase(original[w])
                  /\ obj[w].Amount.Local.Currency
                       # original[w].Amount.Local.Currency )
                => /\ pc'[w] = "done"
                   /\ err'[w] = ErrCurrencyMismatch
                   /\ result'[w] = EmptyResult
                   /\ repo' = repo
         ]_vars

\* An approved refund in USD of the BRL purchase t1 has failed with
\* CurrencyMismatch while an approved BRL refund of t1 is stored.
C33_Witness ==
    /\ Len(Adjustments(repo, "t1")) = 1
    /\ Adjustments(repo, "t1")[1].Status = StatusApproved
    /\ Adjustments(repo, "t1")[1].Amount.Local.Currency = "BRL"
    /\ \E w \in Workers :
          /\ pc[w] = "done"
          /\ err[w] = ErrCurrencyMismatch
          /\ cmd[w].LocalCurrency = "USD"
          /\ cmd[w].IdempotencyKey \notin DOMAIN repo.idempotencyKeys

(* C34: in every state of a ledger driven through ProcessTransaction every *)
(* stored purchase has a non-empty id equal to its map key, type PURCHASE, *)
(* a non-empty event id and idempotency key, a local amount within         *)
(* [MinPurchaseAmount, MaxPurchaseAmount] and four non-negative amounts.   *)
C34_StoredPurchasesValid ==
    \A id \in DOMAIN repo.transactions :
        LET t == repo.transactions[id] IN
        /\ id # ""
        /\ t.ID = id
        /\ t.Type = TypePurchase
        /\ t.Event.ID # ""
        /\ t.Event.IdempotencyKey # ""
        /\ t.Amount.Local.Amount >= MinPurchaseAmount
        /\ t.Amount.Local.Amount <= MaxPurchaseAmount
        /\ t.Amount.Local.Amount >= 0
        /\ t.Amount.Transaction.Amount >= 0
        /\ t.Amount.Settlement.Amount >= 0
        /\ t.Amount.Original.Amount >= 0

\* A purchase of the largest amount is stored, and a later purchase with
\* an empty event id has failed with InvalidInput.
C34_Witness ==
    /\ "t1" \in DOMAIN repo.transactions
    /\ repo.transactions["t1"].Amount.Local.Amount = MaxPurchaseAmount
    /\ repo.transactions["t1"].Amount.Original.Amount = 0
    /\ pc["w1"] = "done"
    /\ err["w1"] = ErrInvalidInput
    /\ cmd["w1"].EventID = ""
    /\ cmd["w1"].TransactionID = "t1"

(* C35: every purchase and every adjustment stored by ProcessTransaction   *)
(* has status APPROVED or REJECTED, whatever the status string of the      *)
(* command the Service was given.                                          *)
C35_StatusDomain ==
    /\ \A id \in DOMAIN repo.transactions :
          repo.transactions[id].Status \in Statuses
    /\ \A o \in DOMAIN repo.adjustments :
          \A n \in 1..Len(repo.adjustments[o]) :
              repo.adjustments[o][n].Status \in Statuses

(* C36: a command whose transaction type is none of PURCHASE,              *)
(* REVERSAL_PURCHASE and REFUND ends in the step that delivers it, before  *)
(* any ledger call, with InvalidTransactionType, an empty result that is   *)
(* not flagged as a replay, and an unchanged ledger, also when its         *)
(* idempotency key is already recorded.                                    *)
C36_UnknownTypeRejected ==
    [][\A w \in Workers :
          ( /\ Begins(w)
            /\ cmd'[w].TransactionType
                 \notin {TypePurchase, TypeReversalPurchase, TypeRefund} )
          => /\ pc'[w] = "done"
             /\ err'[w] = ErrInvalidTransactionType
             /\ result'[w] = EmptyResult
             /\ repo' = repo
             /\ mu' = mu
      ]_vars

\* An event of unknown type was rejected although its idempotency key and
\* its transaction ID are both on record.
C36_Witness ==
    \E w \in Workers :
        /\ pc[w] = "done"
        /\ cmd[w].TransactionType = "CHARGEBACK"
        /\ err[w] = ErrInvalidTransactionType
        /\ ~result[w].Idempotent
        /\ cmd[w].IdempotencyKey \in DOMAIN repo.idempotencyKeys
        /\ cmd[w].TransactionID \in DOMAIN repo.transactions

\* The ledger after the SetupCommands, processed one after the other.
RECURSIVE ProcessAll(_, _)
ProcessAll(r, cs) ==
    IF cs = <<>> THEN r
    ELSE ProcessAll(ProcessTransaction(r, Head(cs)).repo, Tail(cs))

BaseLedger == ProcessAll(NewRepository, SetupCommands)

BothReturned == \A w \in Workers : pc[w] = "done" /\ cmd[w] \in PairEvents

(* C37: two events with different idempotency keys and different           *)
(* transaction IDs that concern different purchases, delivered             *)
(* concurrently to the same ledger, each get the result they get when      *)
(* processed alone, first or second, and leave the ledger that processing  *)
(* them one after the other leaves, in either order.                       *)
C37_IndependentEventsCommute ==
    /\ (SetupComplete /\ \A w \in Workers : ~HasBegun(w))
       => repo = BaseLedger
    /\ BothReturned
       => LET first1 == ProcessTransaction(BaseLedger, cmd["w1"])
              first2 == ProcessTransaction(BaseLedger, cmd["w2"])
              then2 == ProcessTransaction(first1.repo, cmd["w2"])
              then1 == ProcessTransaction(first2.repo, cmd["w1"])
          IN  /\ Independent(cmd["w1"], cmd["w2"])
              /\ then2.repo = then1.repo
              /\ repo = then2.repo
              /\ <<result["w1"], err["w1"]>> = <<first1.result, first1.err>>
              /\ <<result["w1"], err["w1"]>> = <<then1.result, then1.err>>
              /\ <<result["w2"], err["w2"]>> = <<first2.result, first2.err>>
              /\ <<result["w2"], err["w2"]>> = <<then2.result, then2.err>>

\* A new purchase and a refund of the stored purchase t1 that fits its
\* remaining budget have both been stored, the refund having read the
\* ledger before the purchase was saved and written after it.
C37_Witness ==
    /\ BothReturned
    /\ cmd["w1"].TransactionType = TypePurchase
    /\ cmd["w2"].TransactionType = TypeRefund
    /\ err["w1"] = Nil /\ err["w2"] = Nil
    /\ cmd["w1"].TransactionID \in DOMAIN repo.transactions
    /\ Len(Adjustments(repo, "t1")) = 2

\* Who is inside which part of the ledger.
InSave(w) ==
    pc[w] \in {"SaveTransaction.locked", "SaveTransaction.keyed",
               "SaveAdjustment.locked", "SaveAdjustment.keyed"}

InGetter(p) ==
    IF p \in Workers
    THEN pc[p] \in {"GetByIdempotencyKey.RLock", "GetTransactionByID.RLock",
                    "GetAdjustmentsByTransactionID.RLock"}
    ELSE reads[p].op \in {"GetTransaction.RLock", "ListTransactions.RLock"}

Returned(p) ==
    IF p \in Workers THEN pc[p] \in {"idle", "done"} ELSE ~InGetter(p)

\* The lock is held exactly by those that are inside a ledger operation:
\* the write lock by the one request inside a save, the read lock by
\* requests and queries inside a getter, which are never inside a save.
LockDiscipline ==
    /\ mu.readers \cap mu.waiting = {}
    /\ \A p \in Workers \cup Readers :
          (p \in mu.readers \cup mu.waiting) <=> InGetter(p)
    /\ \A w \in Workers :
          /\ InSave(w) => mu.writer = w /\ mu.readers = {}
          /\ mu.writer = w
             => InSave(w) \/ pc[w] \in {"SaveTransaction", "SaveAdjustment"}
    /\ mu.waiting # {} => mu.writer # ""
    /\ \A p \in Workers \cup Readers :
          Returned(p) => p \notin mu.readers \cup mu.waiting \cup {mu.writer}

(* C38: every ledger operation holds the lock from its first statement to  *)
(* its return and at no other time, whichever way it returns, and never    *)
(* acquires it while holding it; so with requests and queries running      *)
(* side by side under fair scheduling every ProcessTransaction,            *)
(* GetTransaction and ListTransactions call that has started returns.      *)
C38_EveryRequestReturns ==
    /\ []LockDiscipline
    /\ \A p \in Workers \cup Readers : (~Returned(p)) ~> Returned(p)

\* A writer has announced itself while a query holds the read lock, the
\* other query is blocked behind the writer, and the other request has
\* returned from a save on its error path.
C38_Witness ==
    /\ mu.writer = "w1"
    /\ pc["w1"] = "SaveAdjustment"
    /\ mu.readers = {"r1"}
    /\ mu.waiting = {"r2"}
    /\ pc["w2"] = "done"
    /\ err["w2"] = ErrDuplicateTransactionID

====
